---- MODULE Spec2Model ----
(***************************************************************************)
(* Wheels Sabana backend: the trip engine (routes/trips.js), the vehicle   *)
(* registry (routes/vehicles.js), the session and password-reset handlers  *)
(* (routes/auth.js, middlewares/auth.js, utils/tokenBlacklist.js).         *)
(*                                                                         *)
(* One trip document is modelled.  Every handler is one action, except     *)
(* POST /trips/:id/reservations, whose three database round trips (the     *)
(* conditional update, the diagnostic re-read, the status save) are three  *)
(* steps of a request slot, so that reservation requests interleave with   *)
(* each other and with the other handlers.                                 *)
(***************************************************************************)
EXTENDS Integers, Sequences, FiniteSets, TLC

\* ------------------------------------------------------------------ bounds
NumPassengers == 2      \* users 1..NumPassengers besides user 0
MaxReq == 2             \* reservation requests in flight at once
MaxSeatsReq == 2        \* largest seats value a reservation request carries
InitCapacity == 3       \* capacity of the vehicles of the model
MaxReservations == 2    \* reservations a trip accumulates
MaxVehicles == 2        \* vehicles ever created
MaxTicks == 2           \* clock advances in one behaviour
MaxResets == 2          \* password-reset tokens ever issued
MaxTokens == 2          \* distinct JWTs ever issued
MaxElapsed == 1         \* milliseconds that pass between the clock reads of one request
MaxPickReq == 2         \* pickup-suggestion requests in flight at once
MaxSuggestions == 4     \* pickup suggestions a trip accumulates
MaxPlateLen == 7        \* longest plate string drawn from the small alphabet
MaxResetReq == 2        \* reset-password requests
MaxDecReq == 1          \* confirm/reject/cancel-reservation requests in flight

\* ------------------------------------------------------- program constants
MIN_CAPACITY == 1
DEFAULT_MAX_CAPACITY == 8
MsPerSecond == 1000
JwtTtlSeconds == 604800
ResetTtlMs == 3600000
MaxPendingSuggestions == 3
MinResetPasswordLen == 6
DocumentedResetTtlMs == 900000
MsPerDay == 86400000
ExpiringDays == 30

VARIABLES
  now,        \* Date.now(), milliseconds
  ticks,      \* number of clock advances so far
  users,      \* User collection: id -> document
  vehicles,   \* Vehicle collection: id -> document (status "none": absent)
  nextVehicle,\* next fresh vehicle id
  trip,       \* the Trip document (status "none": not created)
  reqs,       \* reservation request slots
  race,       \* the parameters N, s, K of a reservation race (RaceSpec)
  cancelReq,  \* the PUT /trips/:id/cancel request in flight
  roleReq,    \* the PUT /auth/role request in flight
  regReq,     \* the last POST /auth/register request and its response
  pickReq,    \* the POST /trips/:id/pickup-suggestions requests in flight
  tripReq,    \* the POST /trips request in flight
  plateReq,   \* a call of validatePlate: its argument and its result
  decReq,     \* the confirm, reject and cancel-reservation requests in flight
  resetReq,   \* the POST /auth/reset-password requests: in flight or answered 200
  actReq,     \* the PUT /vehicles/:id/activate request in flight
  issued,     \* JWTs handed out by POST /auth/login
  revokedTokens, \* tokenBlacklist.js: token -> expiresAt
  resets,     \* PasswordReset collection
  redeemed,   \* history: reset tokens that were redeemed with a 200
  loggedOut,  \* history: tokens a POST /auth/logout answered 200 for
  fresh       \* history: token of the latest login, until a logout revokes it

vars == <<now, ticks, users, vehicles, nextVehicle, trip, reqs, race, cancelReq, roleReq, regReq, pickReq, tripReq, plateReq, decReq, resetReq, actReq,
          issued, revokedTokens, resets, redeemed, loggedOut, fresh>>

tripVars == <<vehicles, nextVehicle, trip, reqs, race, cancelReq, roleReq, regReq, pickReq, tripReq, plateReq, decReq, resetReq, actReq>>
flightVars == <<cancelReq, roleReq, regReq, pickReq, tripReq, plateReq, decReq, resetReq, actReq>>
authVars == <<issued, revokedTokens, resets, redeemed, loggedOut, fresh>>

UserIds == 0..NumPassengers
\* Ids of vehicle documents: those created during a run and one more, so that
\* the driver of GarageSpec starts with three vehicles.
VehicleIds == 1..(MaxVehicles + 1)
ReqIds == 1..MaxReq
NoUser == -1
NoVehicle == 0
NoTime == -1

Min(a, b) == IF a < b THEN a ELSE b

\* ------------------------------------------------------------- documents
NoTrip ==
  [status |-> "none", driver |-> NoUser, vehicle |-> NoVehicle,
   departureAt |-> NoTime, seatsTotal |-> 0, seatsAvailable |-> 0,
   reservations |-> <<>>, pickupPoints |-> <<>>, pickupSuggestions |-> <<>>]

AbsentVehicle ==
  [status |-> "none", owner |-> NoUser, capacity |-> 0,
   soatExpiration |-> NoTime, licenseExpiration |-> NoTime,
   color |-> "", reviewedAt |-> NoTime, plate |-> <<>>]

IdleReq ==
  [pc |-> "idle", user |-> NoUser, seats |-> 0, markFull |-> FALSE]

NoRace == [n |-> 0, s |-> 0, k |-> 0, prior |-> 0]

IdleCancel == [pc |-> "idle", doc |-> NoTrip, mails |-> <<>>]

NoPlateCall == [pc |-> "none", raw |-> <<>>, ok |-> FALSE, value |-> <<>>]

IdleTripReq == [pc |-> "idle", doc |-> NoTrip]

DecIds == 1..MaxDecReq
IdleDecision == [pc |-> "idle", kind |-> "", i |-> 0, doc |-> NoTrip]

IdleActivate == [pc |-> "idle", user |-> NoUser, vehicle |-> NoVehicle]

ResetIds == 1..MaxResetReq
IdleReset == [pc |-> "idle", token |-> 0, password |-> ""]

PickIds == 1..MaxPickReq
IdlePick == [pc |-> "idle", user |-> NoUser]

NoRegister == [user |-> NoUser, role |-> "none", status |-> 0,
               vehicle |-> NoVehicle, mail |-> "none"]

IdleRole == [pc |-> "idle", user |-> NoUser, role |-> "none", activeRole |-> "none",
             activeVehicle |-> NoVehicle, found |-> NoVehicle]

\* No request of the split handlers is in flight.
FlightInitial ==
  /\ cancelReq = IdleCancel
  /\ roleReq = IdleRole
  /\ regReq = NoRegister
  /\ pickReq = [r \in PickIds |-> IdlePick]
  /\ tripReq = IdleTripReq
  /\ plateReq = NoPlateCall
  /\ decReq = [r \in DecIds |-> IdleDecision]
  /\ resetReq = [r \in ResetIds |-> IdleReset]
  /\ actReq = IdleActivate

ActiveStatuses == {"pending", "confirmed"}

\* Sum of the seats held by the pending and confirmed reservations.
RECURSIVE SeatsHeld(_)
SeatsHeld(rs) ==
  IF rs = <<>> THEN 0
  ELSE (IF rs[1].status \in ActiveStatuses THEN rs[1].seats ELSE 0)
       + SeatsHeld(Tail(rs))

ActiveOf(t, u) ==
  {i \in DOMAIN t.reservations :
     t.reservations[i].passenger = u /\ t.reservations[i].status \in ActiveStatuses}


\* ------------------------------------------------------------ trip engine
DocsExpired(v, t) == v.soatExpiration < t \/ v.licenseExpiration < t

\* POST /trips: the response and (on 201) the created document.
CreateTripStatus(u, vid, dep, seats) ==
  LET finalVehicleId == IF vid # NoVehicle THEN vid ELSE users[u].activeVehicle
  IN  IF "driver" \notin users[u].roles THEN 403
      ELSE IF finalVehicleId = NoVehicle THEN 400
      ELSE IF vehicles[finalVehicleId].status = "none"
              \/ vehicles[finalVehicleId].owner # u THEN 404
      ELSE IF DocsExpired(vehicles[finalVehicleId], now) THEN 400
      ELSE IF dep < now THEN 400
      ELSE IF seats < 1 THEN 400
      ELSE IF seats > vehicles[finalVehicleId].capacity THEN 400
      ELSE 201

NewTrip(u, vid, dep, seats) ==
  [status |-> "scheduled", driver |-> u,
   vehicle |-> IF vid # NoVehicle THEN vid ELSE users[u].activeVehicle,
   departureAt |-> dep, seatsTotal |-> seats, seatsAvailable |-> seats,
   reservations |-> <<>>, pickupPoints |-> <<>>, pickupSuggestions |-> <<>>]

CreateTrip(u, vid, dep, seats) ==
  /\ trip.status = "none"
  /\ LET st == CreateTripStatus(u, vid, dep, seats)
     IN  /\ trip' = IF st = 201 THEN NewTrip(u, vid, dep, seats) ELSE trip
  /\ UNCHANGED <<now, ticks, users, vehicles, nextVehicle, reqs>>
  /\ UNCHANGED <<race, flightVars, authVars>>

\* The filter without its seatsAvailable >= seats condition.
ReserveFilter_NoSeatCheck(t, u, s) ==
  /\ t.status # "none"
  /\ t.status \in {"scheduled", "full"}
  /\ t.driver # u
  /\ ActiveOf(t, u) = {}

\* The filter without its $not/$elemMatch condition on the caller's reservations.
ReserveFilter_NoDuplicateCheck(t, u, s) ==
  /\ t.status # "none"
  /\ t.seatsAvailable >= s
  /\ t.status \in {"scheduled", "full"}
  /\ t.driver # u

\* The filter of the findOneAndUpdate of POST /trips/:id/reservations.
ReserveFilter(t, u, s) ==
  /\ t.status # "none"
  /\ t.seatsAvailable >= s
  /\ t.status \in {"scheduled", "full"}
  /\ t.driver # u
  /\ ActiveOf(t, u) = {}

\* The update of the findOneAndUpdate: $inc seatsAvailable, $push reservation.
ReserveApply(t, u, s) ==
  [t EXCEPT !.seatsAvailable = @ - s,
            !.reservations = Append(@, [passenger |-> u, seats |-> s,
                                        status |-> "pending",
                                        decisionAt |-> NoTime])]

\* The failure diagnosis on the re-read document.
ReserveDiagnosis(t, u, s) ==
  IF t.status = "none" THEN "TRIP_NOT_FOUND"
  ELSE IF t.driver = u THEN "OWN_TRIP"
  ELSE IF t.status \in {"cancelled", "completed"} THEN "TRIP_NOT_AVAILABLE"
  ELSE IF t.seatsAvailable < s THEN "INSUFFICIENT_SEATS"
  ELSE IF \E i \in DOMAIN t.reservations :
            /\ t.reservations[i].passenger = u
            /\ t.reservations[i].status = "confirmed"
       THEN "DUPLICATE_RESERVATION"
  ELSE "GENERIC_FAILURE"

\* Step 1: local validation and the conditional update.  A request with an
\* invalid seats value is answered 400 before any database access.
ReserveUpdate(r, u, s) ==
  /\ reqs[r].pc = "idle"
  /\ IF s < 1
     THEN /\ reqs' = [reqs EXCEPT ![r] = IdleReq]
          /\ trip' = trip
     ELSE IF ReserveFilter(trip, u, s)
     THEN /\ Len(trip.reservations) < MaxReservations
          /\ trip' = ReserveApply(trip, u, s)
          /\ reqs' = [reqs EXCEPT ![r] = [pc |-> "updated", user |-> u, seats |-> s,
                         markFull |-> (trip'.seatsAvailable = 0 /\ trip'.status # "full")]]
     ELSE /\ trip' = trip
          /\ reqs' = [reqs EXCEPT ![r] = [pc |-> "failed", user |-> u, seats |-> s,
                                          markFull |-> FALSE]]
  /\ UNCHANGED <<now, ticks, users, vehicles, nextVehicle>>
  /\ UNCHANGED <<race, flightVars, authVars>>

\* The answer a request whose update failed receives from its re-read.
Answer(r) == ReserveDiagnosis(trip, reqs[r].user, reqs[r].seats)

\* Step 2 after a failed update: Trip.findById, the mapping to an error and
\* the 4xx response; the request is over.
ReserveDiagnose(r) ==
  /\ reqs[r].pc = "failed"
  /\ Answer(r) \in {"TRIP_NOT_FOUND", "OWN_TRIP", "TRIP_NOT_AVAILABLE",
                    "INSUFFICIENT_SEATS", "DUPLICATE_RESERVATION", "GENERIC_FAILURE"}
  /\ reqs' = [reqs EXCEPT ![r] = IdleReq]
  /\ UNCHANGED <<now, ticks, users, vehicles, nextVehicle, trip>>
  /\ UNCHANGED <<race, flightVars, authVars>>

\* Step 2 after a successful update: mark the returned document full and
\* save it (the save writes the one modified path, status), then answer 201.
ReserveFinish(r) ==
  /\ reqs[r].pc = "updated"
  /\ trip' = IF reqs[r].markFull
             THEN [trip EXCEPT !.status = "full"]
             ELSE trip
  /\ reqs' = [reqs EXCEPT ![r] = IdleReq]
  /\ UNCHANGED <<now, ticks, users, vehicles, nextVehicle>>
  /\ UNCHANGED <<race, flightVars, authVars>>

\* adjustTripCapacity without its second branch (full back to scheduled).
adjustTripCapacity_NoReopen(t) ==
  IF t.seatsAvailable = 0 /\ t.status = "scheduled"
  THEN [t EXCEPT !.status = "full"]
  ELSE t

adjustTripCapacity(t) ==
  IF t.seatsAvailable = 0 /\ t.status = "scheduled"
  THEN [t EXCEPT !.status = "full"]
  ELSE IF t.seatsAvailable > 0 /\ t.status = "full"
  THEN [t EXCEPT !.status = "scheduled"]
  ELSE t

\* A reject or cancel that keeps the seats.
ReturnSeats_Kept(t, i) == t

\* Seats given back by a reject or a cancel, capped at seatsTotal.
ReturnSeats(t, i) ==
  [t EXCEPT !.seatsAvailable = Min(@ + t.reservations[i].seats, t.seatsTotal)]

Decide(t, i, st) ==
  [t EXCEPT !.reservations[i].status = st, !.reservations[i].decisionAt = now]

\* The confirm lookup without its driver condition.
ConfirmStatus_AnyUser(u, i) ==
  IF trip.status = "none" THEN 404
  ELSE IF i \notin DOMAIN trip.reservations THEN 404
  ELSE IF trip.reservations[i].status \in {"rejected", "cancelled"} THEN 400
  ELSE 200

\* PUT /trips/:tripId/reservations/:reservationId/confirm
ConfirmStatus(u, i) ==
  IF trip.status = "none" \/ trip.driver # u THEN 404
  ELSE IF i \notin DOMAIN trip.reservations THEN 404
  ELSE IF trip.reservations[i].status \in {"rejected", "cancelled"} THEN 400
  ELSE 200

Confirm(u, i) ==
  /\ LET st == ConfirmStatus(u, i)
     IN  /\ trip' = IF st = 200 /\ trip.reservations[i].status = "pending"
                    THEN adjustTripCapacity(Decide(trip, i, "confirmed"))
                    ELSE trip
  /\ UNCHANGED <<now, ticks, users, vehicles, nextVehicle, reqs>>
  /\ UNCHANGED <<race, flightVars, authVars>>

\* PUT /trips/:tripId/reservations/:reservationId/reject
RejectStatus(u, i) ==
  IF trip.status = "none" \/ trip.driver # u THEN 404
  ELSE IF i \notin DOMAIN trip.reservations THEN 404
  ELSE IF trip.reservations[i].status \in {"rejected", "cancelled"} THEN 200
  ELSE IF trip.reservations[i].status # "pending" THEN 400
  ELSE 200

Reject(u, i) ==
  /\ LET st == RejectStatus(u, i)
     IN  /\ trip' = IF st = 200 /\ trip.reservations[i].status = "pending"
                    THEN adjustTripCapacity(ReturnSeats(Decide(trip, i, "rejected"), i))
                    ELSE trip
  /\ UNCHANGED <<now, ticks, users, vehicles, nextVehicle, reqs>>
  /\ UNCHANGED <<race, flightVars, authVars>>

\* PUT /trips/:tripId/reservations/:reservationId/cancel
CancelReservationStatus(u, i) ==
  IF trip.status = "none" \/ i \notin DOMAIN trip.reservations THEN 404
  ELSE IF trip.driver # u /\ trip.reservations[i].passenger # u THEN 403
  ELSE 200

CancelReservation(u, i) ==
  /\ LET st == CancelReservationStatus(u, i)
     IN  /\ trip' = IF st = 200 /\ trip.reservations[i].status \notin {"cancelled", "rejected"}
                    THEN adjustTripCapacity(ReturnSeats(Decide(trip, i, "cancelled"), i))
                    ELSE trip
  /\ UNCHANGED <<now, ticks, users, vehicles, nextVehicle, reqs>>
  /\ UNCHANGED <<race, flightVars, authVars>>

\* PUT /trips/:id/cancel
CancelledTrip(t) ==
  [t EXCEPT !.status = "cancelled", !.seatsAvailable = 0,
            !.reservations = [i \in DOMAIN t.reservations |->
                                [t.reservations[i] EXCEPT !.status = "cancelled"]]]

CancelTrip(u) ==
  /\ LET found == trip.status # "none" /\ trip.driver = u
     IN  /\ trip' = IF found THEN CancelledTrip(trip) ELSE trip
  /\ UNCHANGED <<now, ticks, users, vehicles, nextVehicle, reqs>>
  /\ UNCHANGED <<race, flightVars, authVars>>


\* ------------------------------------------------- initial states and Next
FarFuture == 2 * JwtTtlSeconds * MsPerSecond
DepartureLead == 6 * ResetTtlMs
InitialPassword == "SecurePass123"

bcryptHash(password) == <<"bcrypt", password>>
bcryptCompare(password, hash) == hash = bcryptHash(password)

Passenger ==
  [roles |-> {"passenger"}, activeRole |-> "passenger",
   activeVehicle |-> NoVehicle, passwordHash |-> bcryptHash(InitialPassword)]

\* User 0 registered as a driver with vehicle 1 (POST /auth/register,
\* role=driver); the other users registered as passengers.
RegisteredDriver ==
  [roles |-> {"passenger", "driver"}, activeRole |-> "driver",
   activeVehicle |-> 1, passwordHash |-> bcryptHash(InitialPassword)]

\* The plate of the vehicles of the tests, "ABC123".
DefaultPlate == <<"A", "B", "C", "1", "2", "3">>

RegisteredVehicle(u) ==
  [status |-> "pending", owner |-> u, capacity |-> InitCapacity,
   soatExpiration |-> FarFuture, licenseExpiration |-> FarFuture,
   color |-> "", reviewedAt |-> NoTime, plate |-> DefaultPlate]

NoToken == [sub |-> NoUser, iat |-> 0, exp |-> 0]

AuthInitial ==
  /\ issued = {}
  /\ revokedTokens = {}
  /\ resets = <<>>
  /\ redeemed = {}
  /\ loggedOut = {}
  /\ fresh = NoToken

Init ==
  /\ now = 0
  /\ ticks = 0
  /\ users = [u \in UserIds |-> IF u = 0 THEN RegisteredDriver ELSE Passenger]
  /\ vehicles = [v \in VehicleIds |-> IF v = 1 THEN RegisteredVehicle(0) ELSE AbsentVehicle]
  /\ nextVehicle = 2
  /\ trip = NoTrip
  /\ reqs = [r \in ReqIds |-> IdleReq]
  /\ race = NoRace
  /\ FlightInitial
  /\ AuthInitial

SeatInputs == 0..MaxSeatsReq
ReservationIds == 1..MaxReservations
DepartureInputs == {now - 1, now + DepartureLead}

\* A handler starts.
Begin ==
  \/ \E u \in UserIds, vid \in {NoVehicle} \cup VehicleIds, dep \in DepartureInputs,
        seats \in 0..(InitCapacity + 1) : CreateTrip(u, vid, dep, seats)
  \/ \E r \in ReqIds, u \in UserIds, s \in SeatInputs : ReserveUpdate(r, u, s)
  \/ \E u \in UserIds, i \in ReservationIds : Confirm(u, i)
  \/ \E u \in UserIds, i \in ReservationIds : Reject(u, i)
  \/ \E u \in UserIds, i \in ReservationIds : CancelReservation(u, i)
  \/ \E u \in UserIds : CancelTrip(u)

\* A reservation request in flight takes its next step.
Continue ==
  \/ \E r \in ReqIds : ReserveDiagnose(r)
  \/ \E r \in ReqIds : ReserveFinish(r)

Next == Begin \/ Continue

Spec == Init /\ [][Next]_vars

\* No reservation request is between two of its steps.
Quiet == \A r \in ReqIds : reqs[r].pc = "idle"

\* The requests run one after another: none starts while another is in flight.
SeqNext == (Quiet /\ Begin) \/ Continue

SeqSpec == Init /\ [][SeqNext]_vars


\* ------------------------------------------------------ reservation race
\* N distinct passengers, none holding a reservation, each about to request
\* s seats on a published trip that has K seats available; the other seats
\* of the trip, if any, are held by an earlier reservation of a passenger
\* who takes no part in the race.
RaceN == Min(MaxReq, NumPassengers)

RaceTrip(k, h, hs) ==
  [NewTrip(0, 1, DepartureLead, k + h) EXCEPT
     !.seatsAvailable = k,
     !.status = IF k = 0 THEN "full" ELSE "scheduled",
     !.reservations = IF h = 0 THEN <<>>
                      ELSE <<[passenger |-> NumPassengers, seats |-> h, status |-> hs,
                              decisionAt |-> IF hs = "confirmed" THEN 0 ELSE NoTime]>>]

RaceInit ==
  \E n \in 1..RaceN, k \in 0..InitCapacity, s \in 1..MaxSeatsReq,
     h \in 0..MaxSeatsReq, hs \in ActiveStatuses :
    /\ 1 <= k + h /\ k + h <= InitCapacity
    /\ h > 0 => (n < NumPassengers /\ n < MaxReservations)
    /\ h = 0 => hs = "pending"
    /\ now = 0
    /\ ticks = 0
    /\ users = [u \in UserIds |-> IF u = 0 THEN RegisteredDriver ELSE Passenger]
    /\ vehicles = [v \in VehicleIds |-> IF v = 1 THEN RegisteredVehicle(0) ELSE AbsentVehicle]
    /\ nextVehicle = 2
    /\ trip = RaceTrip(k, h, hs)
    /\ reqs = [r \in ReqIds |-> IF r <= n
                                 THEN [IdleReq EXCEPT !.user = r, !.seats = s]
                                 ELSE IdleReq]
    /\ race = [n |-> n, s |-> s, k |-> k, prior |-> IF h = 0 THEN 0 ELSE 1]
    /\ FlightInitial
    /\ AuthInitial

RaceRequest(r) ==
  /\ reqs[r].user # NoUser
  /\ ReserveUpdate(r, reqs[r].user, reqs[r].seats)

RaceNext ==
  \/ \E r \in ReqIds : RaceRequest(r)
  \/ \E r \in ReqIds : ReserveDiagnose(r)
  \/ \E r \in ReqIds : ReserveFinish(r)

RaceSpec == RaceInit /\ [][RaceNext]_vars

\* Every request of the race has been answered.
RaceOver == race.n > 0 /\ \A r \in ReqIds : reqs[r] = IdleReq

\* Requests of the race whose conditional update was applied (answered 201).
RaceCreated == Len(trip.reservations) - race.prior


\* ---------------------------------------------------------------- clock
\* Steps of the clock that reach the edges of a session's lifetime ...
SessionSteps == {MsPerSecond, JwtTtlSeconds * MsPerSecond - 1, JwtTtlSeconds * MsPerSecond}

\* ... and of a reset token's lifetime.
ResetSteps == {1, ResetTtlMs}

\* The clock stops here: one session lifetime after the latest useful login.
Horizon == JwtTtlSeconds * MsPerSecond + ResetTtlMs + MsPerSecond

Tick(d) ==
  /\ ticks < MaxTicks
  /\ now + d <= Horizon
  /\ now' = now + d
  /\ ticks' = ticks + 1
  /\ UNCHANGED <<users, tripVars, authVars>>

\* ------------------------------------------------------ sessions (JWT)
\* jwt.sign({sub, email}, secret, {expiresIn: "7d"}): the token is a function
\* of the subject and of the second it is issued in.
jwtSign(u, t) ==
  [sub |-> u, iat |-> t \div MsPerSecond, exp |-> (t \div MsPerSecond) + JwtTtlSeconds]

\* jwt.verify: a token the server signed and whose exp is still ahead.
jwtVerify(tok, t) == tok \in issued /\ (t \div MsPerSecond) < tok.exp

cleanup(m, t) == {e \in m : ~(e.expiresAt <= t)}

\* revokeToken: expiresAt = expSeconds * 1000.
RevokeExpiry(expSeconds) == expSeconds * MsPerSecond

revokeToken(m, tok, expSeconds) ==
  {e \in m : e.token # tok} \cup {[token |-> tok, expiresAt |-> RevokeExpiry(expSeconds)]}

\* The map after isTokenRevoked ran its cleanup, and its answer.
isTokenRevoked(m, tok, t) == \E e \in cleanup(m, t) : e.token = tok

\* requireAuth: the status it answers with (200: the handler runs).  jwt.verify
\* reads the clock at tv, the cleanup inside isTokenRevoked reads it at tc.
requireAuth(tok, tv, tc) ==
  IF ~jwtVerify(tok, tv) THEN 401
  ELSE IF isTokenRevoked(revokedTokens, tok, tc) THEN 401
  ELSE 200

\* The blacklist after requireAuth: cleanup runs once the signature verified.
AfterAuth(tok, tv, tc) ==
  IF jwtVerify(tok, tv) THEN cleanup(revokedTokens, tc) ELSE revokedTokens

\* Time that passes inside one request, between its two clock reads.
Elapsed == 0..MaxElapsed

\* The clock moves by d while a request is served.
Passes(d) ==
  /\ now + d <= Horizon
  /\ d > 0 => ticks < MaxTicks
  /\ now' = now + d
  /\ ticks' = IF d > 0 THEN ticks + 1 ELSE ticks

PasswordInputs == {InitialPassword, "NuevoPass123", "short"}

\* POST /auth/login
Login(u, pw) ==
  /\ bcryptCompare(pw, users[u].passwordHash)
  /\ Cardinality(issued \cup {jwtSign(u, now)}) <= MaxTokens
  /\ issued' = issued \cup {jwtSign(u, now)}
  /\ fresh' = jwtSign(u, now)
  /\ UNCHANGED <<now, ticks, users, tripVars, revokedTokens, resets, redeemed, loggedOut>>

\* A password sent as a JSON number, not as a string.
NumericPassword == "<number 12345678>"
LoginPasswords == PasswordInputs \cup {NumericPassword}

\* bcrypt.compare rejects its promise when an argument is not a string
\* ("Illegal arguments").
bcryptCompareThrows(password) == password = NumericPassword

\* The response of POST /auth/login; NoUser stands for an e-mail address
\* that no account has.
LoginAnswer(u, pw) ==
  IF u = NoUser THEN [status |-> 401, error |-> "Credenciales invalidas"]
  ELSE IF bcryptCompareThrows(pw)
  THEN [status |-> 500, error |-> "Error de autenticacion"]
  ELSE IF ~bcryptCompare(pw, users[u].passwordHash)
  THEN [status |-> 401, error |-> "Credenciales invalidas"]
  ELSE [status |-> 200, error |-> ""]

\* A refused login: nothing changes.
LoginRejected(u, pw) ==
  /\ ~bcryptCompare(pw, users[u].passwordHash)
  /\ UNCHANGED vars

\* GET /auth/me, standing for every endpoint behind requireAuth.
GetMe(tok, d) ==
  /\ Passes(d)
  /\ revokedTokens' = AfterAuth(tok, now, now + d)
  /\ UNCHANGED <<users, tripVars, issued, resets, redeemed, loggedOut, fresh>>

\* POST /auth/logout
Logout(tok, d) ==
  /\ Passes(d)
  /\ IF requireAuth(tok, now, now + d) = 200
     THEN /\ revokedTokens' = revokeToken(AfterAuth(tok, now, now + d), tok, tok.exp)
          /\ loggedOut' = loggedOut \cup {tok}
          /\ fresh' = IF fresh = tok THEN NoToken ELSE fresh
     ELSE /\ revokedTokens' = AfterAuth(tok, now, now + d)
          /\ UNCHANGED <<loggedOut, fresh>>
  /\ UNCHANGED <<users, tripVars, issued, resets, redeemed>>

\* ------------------------------------------------------- password reset
\* crypto.randomBytes(32): a value no earlier token has.
NewResetToken == Len(resets) + 1

\* POST /auth/forgot-password for a registered email.
ForgotPassword(u) ==
  /\ Len(resets) < MaxResets
  /\ resets' = Append(resets, [userId |-> u, token |-> NewResetToken,
                               expiresAt |-> now + ResetTtlMs, used |-> FALSE])
  /\ UNCHANGED <<now, ticks, users, tripVars, issued, revokedTokens, redeemed, loggedOut, fresh>>

\* PasswordReset.findOne({ token }): index of the record, 0 when none.
FindReset(tk) ==
  IF \E i \in DOMAIN resets : resets[i].token = tk
  THEN CHOOSE i \in DOMAIN resets : resets[i].token = tk
  ELSE 0

\* POST /auth/reset-password without the pr.used test.
ResetAnswer_IgnoresUsed(tk, pw) ==
  IF tk = 0 \/ Len(pw) < MinResetPasswordLen THEN "TOKEN_OR_PASSWORD_INVALID"
  ELSE IF FindReset(tk) = 0 \/ resets[FindReset(tk)].expiresAt < now
       THEN "TOKEN_INVALID_OR_EXPIRED"
  ELSE "OK"

\* POST /auth/reset-password: what it answers.
ResetAnswer(tk, pw) ==
  IF tk = 0 \/ Len(pw) < MinResetPasswordLen THEN "TOKEN_OR_PASSWORD_INVALID"
  ELSE IF \/ FindReset(tk) = 0
          \/ resets[FindReset(tk)].used
          \/ resets[FindReset(tk)].expiresAt < now
       THEN "TOKEN_INVALID_OR_EXPIRED"
  ELSE "OK"

ResetStatus(tk, pw) == IF ResetAnswer(tk, pw) = "OK" THEN 200 ELSE 400

\* The expiry test of POST /auth/reset-password on the record pr at time t, for
\* a request that passed the input validation.
ResetAnswer_At(pr, t, pw) ==
  IF Len(pw) < MinResetPasswordLen THEN "TOKEN_OR_PASSWORD_INVALID"
  ELSE IF pr.used \/ pr.expiresAt < t THEN "TOKEN_INVALID_OR_EXPIRED"
  ELSE "OK"

ResetPassword(tk, pw) ==
  /\ IF ResetStatus(tk, pw) = 200
     THEN /\ users' = [users EXCEPT ![resets[FindReset(tk)].userId].passwordHash = bcryptHash(pw)]
          /\ resets' = [resets EXCEPT ![FindReset(tk)].used = TRUE]
          /\ redeemed' = redeemed \cup {tk}
     ELSE UNCHANGED <<users, resets, redeemed>>
  /\ UNCHANGED <<now, ticks, tripVars, issued, revokedTokens, loggedOut, fresh>>

ResetTokenInputs == 0..MaxResets

\* POST /auth/reset-password up to its checks: PasswordReset.findOne and the
\* tests on the record; a refused request is answered 400 and ends here.
ResetLoad(r, tk, pw) ==
  /\ resetReq[r].pc = "idle"
  /\ resetReq' = IF ResetStatus(tk, pw) = 200
                 THEN [resetReq EXCEPT ![r] = [pc |-> "found", token |-> tk, password |-> pw]]
                 ELSE resetReq
  /\ UNCHANGED <<now, ticks, users, vehicles, nextVehicle, trip, reqs, race,
                 cancelReq, roleReq, regReq, pickReq, tripReq, plateReq, decReq, actReq, authVars>>

\* ... then user.save() with the new hash, pr.used = true, pr.save() and the
\* 200 response; the slot keeps the answered request.
ResetStore(r) ==
  /\ resetReq[r].pc = "found"
  /\ users' = [users EXCEPT ![resets[FindReset(resetReq[r].token)].userId].passwordHash =
                              bcryptHash(resetReq[r].password)]
  /\ resets' = [resets EXCEPT ![FindReset(resetReq[r].token)].used = TRUE]
  /\ redeemed' = redeemed \cup {resetReq[r].token}
  /\ resetReq' = [resetReq EXCEPT ![r].pc = "answered 200"]
  /\ UNCHANGED <<now, ticks, vehicles, nextVehicle, trip, reqs, race,
                 cancelReq, roleReq, regReq, pickReq, tripReq, plateReq, decReq, actReq,
                 issued, revokedTokens, loggedOut, fresh>>

ResetRaceNext ==
  \/ \E d \in ResetSteps : Tick(d)
  \/ \E u \in UserIds : ForgotPassword(u)
  \/ \E r \in ResetIds, tk \in ResetTokenInputs, pw \in PasswordInputs : ResetLoad(r, tk, pw)
  \/ \E r \in ResetIds : ResetStore(r)

ResetRaceSpec == Init /\ [][ResetRaceNext]_vars

SessionNext ==
  \/ \E d \in SessionSteps : Tick(d)
  \/ \E u \in UserIds, pw \in PasswordInputs : Login(u, pw)
  \/ \E u \in UserIds, pw \in LoginPasswords : LoginRejected(u, pw)
  \/ \E tok \in issued, d \in Elapsed : GetMe(tok, d)
  \/ \E tok \in issued, d \in Elapsed : Logout(tok, d)

SessionSpec == Init /\ [][SessionNext]_vars

ResetNext ==
  \/ \E d \in ResetSteps : Tick(d)
  \/ \E u \in UserIds : ForgotPassword(u)
  \/ \E tk \in ResetTokenInputs, pw \in PasswordInputs : ResetPassword(tk, pw)

ResetSpec == Init /\ [][ResetNext]_vars

\* --------------------------------------------------- plate validation
\* Strings are sequences of one-character strings.
UpperLetters == {"A", "B", "C", "D"}
Digits == {"1", "2", "3", "4", "5"}
Whitespace == {" "}

\* String.prototype.toUpperCase, one character at a time.
toUpperCase(c) ==
  CASE c = "a" -> "A"
    [] c = "b" -> "B"
    [] c = "c" -> "C"
    [] OTHER -> c

RECURSIVE trimStart(_)
trimStart(str) ==
  IF str # <<>> /\ Head(str) \in Whitespace THEN trimStart(Tail(str)) ELSE str

RECURSIVE trimEnd(_)
trimEnd(str) ==
  IF str # <<>> /\ str[Len(str)] \in Whitespace
  THEN trimEnd(SubSeq(str, 1, Len(str) - 1))
  ELSE str

\* String.prototype.trim
trim(str) == trimEnd(trimStart(str))

\* normalizePlate without its toUpperCase.
normalizePlate_NoUpperCase(rawValue) == trim(rawValue)

normalizePlate(rawValue) ==
  [k \in DOMAIN trim(rawValue) |-> toUpperCase(trim(rawValue)[k])]

\* /^[A-Z]{3}[0-9]{3}$/
CAR_PLATE_REGEX(plate) ==
  /\ Len(plate) = 6
  /\ \A k \in 1..3 : plate[k] \in UpperLetters
  /\ \A k \in 4..6 : plate[k] \in Digits

\* /^[A-Z]{3}[0-9]{2}[A-Z]$/
MOTORCYCLE_PLATE_REGEX(plate) ==
  /\ Len(plate) = 6
  /\ \A k \in 1..3 : plate[k] \in UpperLetters
  /\ \A k \in 4..5 : plate[k] \in Digits
  /\ plate[6] \in UpperLetters

isPlateFormatValid(plate) ==
  IF plate = <<>> THEN FALSE
  ELSE CAR_PLATE_REGEX(plate) \/ MOTORCYCLE_PLATE_REGEX(plate)

validatePlate(rawValue) ==
  LET normalized == normalizePlate(rawValue)
  IN  IF normalized = <<>> THEN [ok |-> FALSE, value |-> normalized]
      ELSE IF ~isPlateFormatValid(normalized) THEN [ok |-> FALSE, value |-> normalized]
      ELSE [ok |-> TRUE, value |-> normalized]

\* The plates of the tests and of the documentation.
PlateExamples ==
  {<<"A", "B", "C", "1", "2", "3">>, <<"A", "B", "C", "1", "2", "D">>,
   <<"a", "b", "c", "1", "2", "3">>, <<"A", "B", "1", "2", "3", "4">>,
   <<"A", "1", "C", "1", "2", "3">>, <<"1", "2", "A", "3", "4", "5">>,
   <<"a", "b", "c", " ", "1", "2", "3">>}

\* Every string of at most MaxPlateLen characters over a small alphabet.
PlateAlphabet == {"A", "a", "1", " "}
PlateInputs ==
  PlateExamples \cup UNION {[1..n -> PlateAlphabet] : n \in 0..MaxPlateLen}

PlateInit ==
  /\ now = 0
  /\ ticks = 0
  /\ users = [u \in UserIds |-> IF u = 0 THEN RegisteredDriver ELSE Passenger]
  /\ vehicles = [v \in VehicleIds |-> IF v = 1 THEN RegisteredVehicle(0) ELSE AbsentVehicle]
  /\ nextVehicle = 2
  /\ trip = NoTrip
  /\ reqs = [r \in ReqIds |-> IdleReq]
  /\ race = NoRace
  /\ cancelReq = IdleCancel
  /\ roleReq = IdleRole
  /\ regReq = NoRegister
  /\ pickReq = [r \in PickIds |-> IdlePick]
  /\ tripReq = IdleTripReq
  /\ decReq = [r \in DecIds |-> IdleDecision]
  /\ resetReq = [r \in ResetIds |-> IdleReset]
  /\ actReq = IdleActivate
  /\ \E raw \in PlateInputs :
       plateReq = [pc |-> "called", raw |-> raw, ok |-> FALSE, value |-> <<>>]
  /\ AuthInitial

ValidatePlateCall ==
  /\ plateReq.pc = "called"
  /\ plateReq' = [pc |-> "returned", raw |-> plateReq.raw,
                  ok |-> validatePlate(plateReq.raw).ok,
                  value |-> validatePlate(plateReq.raw).value]
  /\ UNCHANGED <<now, ticks, users, vehicles, nextVehicle, trip, reqs, race,
                 cancelReq, roleReq, regReq, pickReq, tripReq, decReq, resetReq, actReq, authVars>>

PlateNext == ValidatePlateCall

PlateSpec == PlateInit /\ [][PlateNext]_vars

\* ------------------------------------------------------ vehicle registry
\* POST /vehicles: the status it answers with.
CreateVehicleStatus(plate, cap, soat, lic) ==
  IF plate = <<>> \/ cap = 0 THEN 400
  ELSE IF ~validatePlate(plate).ok THEN 400
  ELSE IF cap < MIN_CAPACITY \/ cap > DEFAULT_MAX_CAPACITY THEN 400
  ELSE IF soat < now THEN 400
  ELSE IF lic < now THEN 400
  ELSE 201

CreateVehicle(u, plate, cap, soat, lic) ==
  /\ IF CreateVehicleStatus(plate, cap, soat, lic) = 201
     THEN /\ nextVehicle <= MaxVehicles
          /\ vehicles' = [vehicles EXCEPT ![nextVehicle] =
                            [status |-> "pending", owner |-> u, capacity |-> cap,
                             soatExpiration |-> soat, licenseExpiration |-> lic,
                             color |-> "", reviewedAt |-> NoTime,
                             plate |-> validatePlate(plate).value]]
          /\ nextVehicle' = nextVehicle + 1
          /\ users' = [users EXCEPT
                         ![u].roles = @ \cup {"driver"},
                         ![u].activeVehicle = IF @ = NoVehicle THEN nextVehicle ELSE @]
     ELSE UNCHANGED <<vehicles, nextVehicle, users>>
  /\ UNCHANGED <<now, ticks, trip, reqs, race, flightVars, authVars>>

\* The Trip.findOne of DELETE /vehicles/:id without "full" among its statuses.
BlockingTrip_ScheduledOnly(u, vid) ==
  /\ trip.vehicle = vid
  /\ trip.driver = u
  /\ trip.status \in {"scheduled"}
  /\ trip.departureAt >= now

\* The Trip.findOne of DELETE /vehicles/:id.
BlockingTrip(u, vid) ==
  /\ trip.vehicle = vid
  /\ trip.driver = u
  /\ trip.status \in {"scheduled", "full"}
  /\ trip.departureAt >= now

Owns(vs, u, vid) == vs[vid].status # "none" /\ vs[vid].owner = u

\* DELETE /vehicles/:id: the status it answers with.
DeleteStatus(u, vid) ==
  IF BlockingTrip(u, vid) THEN 400
  ELSE IF ~Owns(vehicles, u, vid) THEN 404
  ELSE 200

\* Vehicle.find({ owner }) after the delete; createdAt order is id order.
RemainingVehicles(u, vid) == {v \in VehicleIds \ {vid} : Owns(vehicles, u, v)}

SetMin(S) == CHOOSE x \in S : \A y \in S : x <= y

nextActive_Oldest(u, vid) == SetMin(RemainingVehicles(u, vid))

nextActive(u, vid) ==
  LET remaining == RemainingVehicles(u, vid)
      valid == {v \in remaining : ~DocsExpired(vehicles[v], now)}
  IN  IF valid # {} THEN SetMin(valid) ELSE SetMin(remaining)

\* The user document saved by a successful delete.
UserAfterDelete(u, vid) ==
  IF RemainingVehicles(u, vid) = {}
  THEN [users[u] EXCEPT !.roles = @ \ {"driver"},
                        !.activeRole = "passenger",
                        !.activeVehicle = NoVehicle]
  ELSE [users[u] EXCEPT !.roles = @ \cup {"driver"},
                        !.activeVehicle = IF @ = NoVehicle \/ @ = vid
                                          THEN nextActive(u, vid) ELSE @]

DeleteVehicle(u, vid) ==
  /\ IF DeleteStatus(u, vid) = 200
     THEN /\ vehicles' = [vehicles EXCEPT ![vid] = AbsentVehicle]
          /\ users' = [users EXCEPT ![u] = UserAfterDelete(u, vid)]
     ELSE UNCHANGED <<vehicles, users>>
  /\ UNCHANGED <<now, ticks, nextVehicle, trip, reqs, race, flightVars, authVars>>

\* The clock passes a trip's departure.
VehicleSteps == {DepartureLead + 1}

SoatInputs == {now - 1, DepartureLead, FarFuture}
LicenseInputs == {now - 1, FarFuture}
CapacityInputs == {0, InitCapacity, DEFAULT_MAX_CAPACITY + 1}

VehBegin ==
  \/ \E d \in VehicleSteps : Tick(d)
  \/ \E u \in UserIds, cap \in CapacityInputs, soat \in SoatInputs,
        lic \in LicenseInputs : CreateVehicle(u, DefaultPlate, cap, soat, lic)
  \/ \E u \in UserIds, vid \in VehicleIds : DeleteVehicle(u, vid)
  \/ \E u \in UserIds, vid \in {NoVehicle} \cup VehicleIds, dep \in DepartureInputs,
        seats \in {0, MIN_CAPACITY} : CreateTrip(u, vid, dep, seats)
  \/ \E r \in ReqIds, u \in UserIds, s \in SeatInputs : ReserveUpdate(r, u, s)
  \/ \E u \in UserIds : CancelTrip(u)

VehNext == (Quiet /\ VehBegin) \/ Continue

VehSpec == Init /\ [][VehNext]_vars

\* ------------------------------------------------ vehicle verification
\* A body field that the request does not carry.
Undefined == -2
NoField == "undefined"
NoPlateField == <<"undefined">>

\* PUT /vehicles/:id with capacity, soatExpiration and color in the body (the
\* other fields follow the same compare-and-flag pattern): its status.
UpdateVehicleStatus(u, vid, plate, cap, soat, color) ==
  IF ~Owns(vehicles, u, vid) THEN 404
  ELSE IF plate # NoPlateField /\ ~validatePlate(plate).ok THEN 400
  ELSE IF cap # Undefined /\ (cap < MIN_CAPACITY \/ cap > DEFAULT_MAX_CAPACITY) THEN 400
  ELSE IF soat # Undefined /\ soat < now THEN 400
  ELSE 200

\* The reviewTriggered flag of PUT /vehicles/:id.
reviewTriggered(v, plate, cap, soat, color) ==
  \/ plate # NoPlateField /\ validatePlate(plate).value # v.plate
  \/ cap # Undefined /\ v.capacity # cap
  \/ soat # Undefined /\ v.soatExpiration # soat
  \/ color # NoField /\ v.color # color

\* The document PUT /vehicles/:id saves.
UpdatedVehicle(v, plate, cap, soat, color) ==
  LET w == [v EXCEPT !.plate = IF plate # NoPlateField THEN validatePlate(plate).value ELSE @,
                     !.capacity = IF cap # Undefined THEN cap ELSE @,
                     !.soatExpiration = IF soat # Undefined THEN soat ELSE @,
                     !.color = IF color # NoField THEN color ELSE @]
  IN  IF reviewTriggered(v, plate, cap, soat, color)
      THEN [w EXCEPT !.status = "pending", !.reviewedAt = NoTime]
      ELSE w

UpdateVehicle(u, vid, plate, cap, soat, color) ==
  /\ vehicles' = IF UpdateVehicleStatus(u, vid, plate, cap, soat, color) = 200
                 THEN [vehicles EXCEPT ![vid] = UpdatedVehicle(@, plate, cap, soat, color)]
                 ELSE vehicles
  /\ UNCHANGED <<now, ticks, users, nextVehicle, trip, reqs, race, flightVars, authVars>>

\* The verification team decides on a vehicle (no route does it: the tests
\* write the status with Vehicle.findByIdAndUpdate).
ReviewVehicle(vid, st) ==
  /\ vehicles[vid].status # "none"
  /\ vehicles' = [vehicles EXCEPT ![vid].status = st, ![vid].reviewedAt = now]
  /\ UNCHANGED <<now, ticks, users, nextVehicle, trip, reqs, race, flightVars, authVars>>

\* PUT /vehicles/:id/activate: its status.
ActivateStatus(u, vid) ==
  IF ~Owns(vehicles, u, vid) THEN 404
  ELSE IF DocsExpired(vehicles[vid], now) THEN 400
  ELSE IF vehicles[vid].status # "verified" THEN 400
  ELSE 200

ActivateVehicle(u, vid) ==
  /\ users' = IF ActivateStatus(u, vid) = 200
              THEN [users EXCEPT ![u].activeVehicle = vid,
                                 ![u].roles = @ \cup {"driver"}]
              ELSE users
  /\ UNCHANGED <<now, ticks, vehicles, nextVehicle, trip, reqs, race, flightVars, authVars>>

\* ------------------------------------------------------------ role switch
OwnedVehicles(u) == {v \in VehicleIds : Owns(vehicles, u, v)}

\* The find() of PUT /auth/role without its status test.
EligibleVehicles_AnyStatus(u) ==
  {v \in OwnedVehicles(u) : ~DocsExpired(vehicles[v], now)}

\* The vehicles the find() of PUT /auth/role accepts.
EligibleVehicles(u) ==
  {v \in OwnedVehicles(u) :
     vehicles[v].status = "verified" /\ ~DocsExpired(vehicles[v], now)}

\* PUT /auth/role: its status.
RoleStatus(u, role) ==
  IF role \notin {"passenger", "driver"} THEN 400
  ELSE IF role \notin users[u].roles THEN 403
  ELSE IF role = "driver" /\ EligibleVehicles(u) = {} THEN 400
  ELSE 200

\* The user document PUT /auth/role saves.
UserAfterRole(u, role) ==
  [users[u] EXCEPT
     !.activeRole = role,
     !.activeVehicle = IF role = "driver" /\ @ = NoVehicle
                       THEN SetMin(EligibleVehicles(u)) ELSE @]

SwitchRole(u, role) ==
  /\ users' = IF RoleStatus(u, role) = 200
              THEN [users EXCEPT ![u] = UserAfterRole(u, role)]
              ELSE users
  /\ UNCHANGED <<now, ticks, vehicles, nextVehicle, trip, reqs, race, flightVars, authVars>>

RoleInputs == {"passenger", "driver", "admin"}
ReviewOutcomes == {"verified", "rejected"}
UpdateCapacityInputs == {Undefined, 0, InitCapacity, InitCapacity - 1}
UpdateSoatInputs == {Undefined, now - 1, DepartureLead, FarFuture}
ColorInputs == {NoField, "", "Rojo"}

\* Vehicle registration, verification, activation and role switches, one
\* request at a time, while documents expire.
FleetNext ==
  \/ \E d \in VehicleSteps : Tick(d)
  \/ \E u \in UserIds, cap \in {0, InitCapacity}, soat \in SoatInputs :
          CreateVehicle(u, DefaultPlate, cap, soat, FarFuture)
  \/ \E vid \in VehicleIds, st \in ReviewOutcomes : ReviewVehicle(vid, st)
  \/ \E u \in UserIds, vid \in VehicleIds : ActivateVehicle(u, vid)
  \/ \E u \in UserIds, role \in RoleInputs : SwitchRole(u, role)

FleetSpec == Init /\ [][FleetNext]_vars

\* Edits of one vehicle and the decisions of the verification team.
UpdateNext ==
  \/ \E d \in VehicleSteps : Tick(d)
  \/ \E u \in UserIds, vid \in VehicleIds, cap \in UpdateCapacityInputs,
        soat \in UpdateSoatInputs, color \in ColorInputs :
          UpdateVehicle(u, vid, NoPlateField, cap, soat, color)
  \/ \E vid \in VehicleIds, st \in ReviewOutcomes : ReviewVehicle(vid, st)

UpdateSpec == Init /\ [][UpdateNext]_vars

\* ------------------------------------- trip cancellation, step by step
\* PUT /trips/:id/cancel reads the trip, ...
CancelLoad(u) ==
  /\ cancelReq.pc = "idle"
  /\ cancelReq' = IF trip.status # "none" /\ trip.driver = u
                  THEN [pc |-> "loaded", doc |-> trip, mails |-> <<>>]
                  ELSE cancelReq
  /\ UNCHANGED <<now, ticks, users, vehicles, nextVehicle, trip, reqs, race, roleReq, regReq, pickReq, tripReq, plateReq, decReq, resetReq, actReq, authVars>>

\* ... assigns status, seatsAvailable and the mapped reservations to the
\* document it read and saves it: save() writes the paths whose value differs
\* from the one that was read, the reservations as one whole array.
SavedCancel(stored, doc) ==
  [stored EXCEPT
     !.status = IF doc.status # "cancelled" THEN "cancelled" ELSE @,
     !.seatsAvailable = IF doc.seatsAvailable # 0 THEN 0 ELSE @,
     !.reservations = IF CancelledTrip(doc).reservations # doc.reservations
                      THEN CancelledTrip(doc).reservations ELSE @]

CancelSave ==
  /\ cancelReq.pc = "loaded"
  /\ trip' = SavedCancel(trip, cancelReq.doc)
  /\ cancelReq' = [pc |-> "notifying", doc |-> CancelledTrip(cancelReq.doc),
                   mails |-> [i \in DOMAIN cancelReq.doc.reservations |-> "pending"]]
  /\ UNCHANGED <<now, ticks, users, vehicles, nextVehicle, reqs, race, roleReq, regReq, pickReq, tripReq, plateReq, decReq, resetReq, actReq, authVars>>

MailOutcomes == {"fulfilled", "rejected"}

\* One sendEmail promise of the fan-out settles.
EmailSettles(i, outcome) ==
  /\ cancelReq.pc = "notifying"
  /\ i \in DOMAIN cancelReq.mails
  /\ cancelReq.mails[i] = "pending"
  /\ cancelReq' = [cancelReq EXCEPT !.mails[i] = outcome]
  /\ UNCHANGED <<now, ticks, users, vehicles, nextVehicle, trip, reqs, race, roleReq, regReq, pickReq, tripReq, plateReq, decReq, resetReq, actReq, authVars>>

\* The response does not wait for the sends.
AllSettled_NoWait(mails) == TRUE

\* Promise.allSettled has resolved.
AllSettled(mails) == \A i \in DOMAIN mails : mails[i] # "pending"

\* The status PUT /trips/:id/cancel answers with once the fan-out is over.
CancelTripStatus(mails) == 200

\* res.json({ trip }) after the fan-out.
CancelRespond ==
  /\ cancelReq.pc = "notifying"
  /\ AllSettled(cancelReq.mails)
  /\ cancelReq' = IdleCancel
  /\ UNCHANGED <<now, ticks, users, vehicles, nextVehicle, trip, reqs, race, roleReq, regReq, pickReq, tripReq, plateReq, decReq, resetReq, actReq, authVars>>

\* Trip cancellation step by step, among reservation requests.
CancelNext ==
  \/ \E u \in UserIds, vid \in {NoVehicle} \cup VehicleIds, dep \in DepartureInputs,
        seats \in 0..InitCapacity : CreateTrip(u, vid, dep, seats)
  \/ \E r \in ReqIds, u \in UserIds, s \in SeatInputs : ReserveUpdate(r, u, s)
  \/ \E r \in ReqIds : ReserveDiagnose(r)
  \/ \E r \in ReqIds : ReserveFinish(r)
  \/ \E u \in UserIds : CancelLoad(u)
  \/ CancelSave
  \/ \E i \in ReservationIds, outcome \in MailOutcomes : EmailSettles(i, outcome)
  \/ CancelRespond

CancelSpec == Init /\ [][CancelNext]_vars

\* ------------------------------------------- role switch, step by step
\* PUT /auth/role reads the user and the user's vehicles and runs its checks
\* (a refused request ends here), ...
RoleLoad(u, role) ==
  /\ roleReq.pc = "idle"
  /\ roleReq' = IF RoleStatus(u, role) = 200
                THEN [pc |-> "loaded", user |-> u, role |-> role,
                      activeRole |-> users[u].activeRole,
                      activeVehicle |-> users[u].activeVehicle,
                      found |-> IF role = "driver"
                                THEN SetMin(EligibleVehicles(u)) ELSE NoVehicle]
                ELSE roleReq
  /\ UNCHANGED <<now, ticks, users, vehicles, nextVehicle, trip, reqs, race,
                 cancelReq, regReq, pickReq, tripReq, plateReq, decReq, resetReq, actReq, authVars>>

\* ... then saves the document it read: save() writes activeRole and
\* activeVehicle when the handler gave them a new value, and no other path.
SavedRole(stored, req) ==
  [stored EXCEPT
     !.activeRole = IF req.role # req.activeRole THEN req.role ELSE @,
     !.activeVehicle = IF req.role = "driver" /\ req.activeVehicle = NoVehicle
                       THEN req.found ELSE @]

RoleSave ==
  /\ roleReq.pc = "loaded"
  /\ users' = [users EXCEPT ![roleReq.user] = SavedRole(@, roleReq)]
  /\ roleReq' = IdleRole
  /\ UNCHANGED <<now, ticks, vehicles, nextVehicle, trip, reqs, race,
                 cancelReq, regReq, pickReq, tripReq, plateReq, decReq, resetReq, actReq, authVars>>

\* Role switches step by step among the vehicle requests.
RoleRaceNext ==
  \/ \E u \in UserIds, cap \in CapacityInputs, soat \in SoatInputs,
        lic \in LicenseInputs : CreateVehicle(u, DefaultPlate, cap, soat, lic)
  \/ \E vid \in VehicleIds, st \in ReviewOutcomes : ReviewVehicle(vid, st)
  \/ \E u \in UserIds, vid \in VehicleIds : ActivateVehicle(u, vid)
  \/ \E u \in UserIds, vid \in VehicleIds : DeleteVehicle(u, vid)
  \/ \E u \in UserIds, role \in RoleInputs : RoleLoad(u, role)
  \/ RoleSave

RoleRaceSpec == Init /\ [][RoleRaceNext]_vars

\* ------------------------------------------------------- registration
\* A slot of the users collection that holds no document.
AbsentUser ==
  [roles |-> {}, activeRole |-> "none", activeVehicle |-> NoVehicle,
   passwordHash |-> <<>>]

\* Where the storage fails during a request: nowhere, at Vehicle.create
\* with a duplicate plate (E11000), at Vehicle.create with another error, or
\* at createdUser.save().
RegisterFaults == {"none", "plate", "vehicle", "save"}

\* The welcome-email helper, given what the sender does with the message:
\* the promise it returns is fulfilled whether or not the sender errored.
sendWelcomeEmail(outcome) == "fulfilled"

\* The await run as if a sender error came through the helper.
WelcomeAborts_OnSenderError(outcome) == outcome = "rejected"

\* `await sendWelcomeEmail(...)` inside the try: a rejected promise throws
\* into the catch block.
WelcomeAborts(outcome) == sendWelcomeEmail(outcome) = "rejected"

RegisterChecks(role, plate, cap) ==
  IF role \notin {"passenger", "driver"} THEN 400
  ELSE IF role = "driver" /\ (plate = <<>> \/ cap = 0) THEN 400
  ELSE IF role = "driver" /\ (cap < 1 \/ cap > 8) THEN 400
  ELSE 0

\* The plate as the Vehicle schema stores it (trim: true, uppercase: true);
\* an empty result fails the required validator.
SchemaPlate(plate) == normalizePlate(plate)

RegisterAnswer(status, user, vehicle, mailed) ==
  [status |-> status, user |-> user, vehicle |-> vehicle, mailed |-> mailed]

\* The response of POST /auth/register, whether the user and the vehicle the
\* request created are still stored when it returns, and whether the welcome
\* email was attempted.
RegisterOutcome(u, role, plate, cap, soat, lic, fault, mail) ==
  IF RegisterChecks(role, plate, cap) # 0
  THEN RegisterAnswer(RegisterChecks(role, plate, cap), FALSE, FALSE, FALSE)
  ELSE IF users[u] # AbsentUser
  THEN RegisterAnswer(409, FALSE, FALSE, FALSE)
  ELSE IF role = "driver"
  THEN IF soat < now \/ lic < now THEN RegisterAnswer(400, FALSE, FALSE, FALSE)
       ELSE IF SchemaPlate(plate) = <<>> THEN RegisterAnswer(500, FALSE, FALSE, FALSE)
       ELSE IF fault = "plate" THEN RegisterAnswer(409, FALSE, FALSE, FALSE)
       ELSE IF fault = "vehicle" THEN RegisterAnswer(500, FALSE, FALSE, FALSE)
       ELSE IF fault = "save" THEN RegisterAnswer(500, FALSE, TRUE, FALSE)
       ELSE IF WelcomeAborts(mail) THEN RegisterAnswer(500, FALSE, TRUE, TRUE)
       ELSE RegisterAnswer(201, TRUE, TRUE, TRUE)
  ELSE IF WelcomeAborts(mail) THEN RegisterAnswer(500, FALSE, FALSE, TRUE)
       ELSE RegisterAnswer(201, TRUE, FALSE, TRUE)

RegisteredUser(role, vid) ==
  [roles |-> IF role = "driver" THEN {"passenger", "driver"} ELSE {"passenger"},
   activeRole |-> role, activeVehicle |-> vid,
   passwordHash |-> bcryptHash(InitialPassword)]

\* POST /auth/register.  u stands for the e-mail address of the request.
Register(u, role, plate, cap, soat, lic, fault, mail) ==
  LET out == RegisterOutcome(u, role, plate, cap, soat, lic, fault, mail)
      vid == IF out.vehicle THEN nextVehicle ELSE NoVehicle
  IN /\ out.vehicle => nextVehicle <= MaxVehicles
     /\ users' = IF out.user
                 THEN [users EXCEPT ![u] = RegisteredUser(role, vid)]
                 ELSE users
     /\ vehicles' = IF out.vehicle
                    THEN [vehicles EXCEPT ![nextVehicle] =
                            [status |-> "pending", owner |-> u, capacity |-> cap,
                             soatExpiration |-> soat, licenseExpiration |-> lic,
                             color |-> "", reviewedAt |-> NoTime,
                             plate |-> SchemaPlate(plate)]]
                    ELSE vehicles
     /\ nextVehicle' = IF out.vehicle THEN nextVehicle + 1 ELSE nextVehicle
     /\ regReq' = [user |-> u, role |-> role, status |-> out.status,
                   vehicle |-> vid,
                   mail |-> IF out.mailed THEN mail ELSE "none"]
     /\ UNCHANGED <<now, ticks, trip, reqs, race, cancelReq, roleReq, pickReq, tripReq, plateReq, decReq, resetReq, actReq, authVars>>

\* An empty database.
RegInit ==
  /\ now = 0
  /\ ticks = 0
  /\ users = [u \in UserIds |-> AbsentUser]
  /\ vehicles = [v \in VehicleIds |-> AbsentVehicle]
  /\ nextVehicle = 1
  /\ trip = NoTrip
  /\ reqs = [r \in ReqIds |-> IdleReq]
  /\ race = NoRace
  /\ FlightInitial
  /\ AuthInitial

RegisterRoles == {"passenger", "driver", "admin"}

RegCapacityInputs == {0, InitCapacity}
RegDateInputs == {now - 1, FarFuture}

RegNext ==
  \E u \in UserIds, role \in RegisterRoles, cap \in RegCapacityInputs,
     soat \in RegDateInputs, lic \in RegDateInputs,
     fault \in RegisterFaults, mail \in MailOutcomes :
    Register(u, role, DefaultPlate, cap, soat, lic, fault, mail)

RegSpec == RegInit /\ [][RegNext]_vars

\* ------------------------------------------------- pickup suggestions
\* normalizePickupPayload: the error of a payload (TRUE) or none.
PickupPayloadError(name, lat, lng) ==
  \/ name = ""
  \/ lat < -90 \/ lat > 90 \/ lng < -180 \/ lng > 180

pendingForPassenger(t, u) ==
  {k \in DOMAIN t.pickupSuggestions :
     t.pickupSuggestions[k].passenger = u /\ t.pickupSuggestions[k].status = "pending"}

OverLimit(t, u) == Cardinality(pendingForPassenger(t, u)) >= MaxPendingSuggestions

\* The response of POST /trips/:id/pickup-suggestions to a request that reads
\* the trip now.
PickupStatus(u, name, lat, lng) ==
  IF PickupPayloadError(name, lat, lng) THEN 400
  ELSE IF trip.status = "none" THEN 404
  ELSE IF trip.driver = u THEN 400
  ELSE IF OverLimit(trip, u) THEN 429
  ELSE 201

InFlightPicks == {r \in PickIds : pickReq[r].pc = "loaded"}

\* The handler up to its checks: Trip.findById and the count of the
\* passenger's pending suggestions in the document it read.
PickLoad(r, u, name, lat, lng) ==
  /\ pickReq[r].pc = "idle"
  /\ Len(trip.pickupSuggestions) + Cardinality(InFlightPicks) < MaxSuggestions
  /\ pickReq' = IF PickupStatus(u, name, lat, lng) = 201
                THEN [pickReq EXCEPT ![r] = [pc |-> "loaded", user |-> u]]
                ELSE pickReq
  /\ UNCHANGED <<now, ticks, users, vehicles, nextVehicle, trip, reqs, race,
                 cancelReq, roleReq, regReq, tripReq, plateReq, decReq, resetReq, actReq, authVars>>

\* The two pushes of the handler without the mirror entry.
PushSuggestion_NoMirror(t, u) ==
  [t EXCEPT !.pickupPoints =
              Append(@, [source |-> "passenger", status |-> "active", requestedBy |-> u])]

\* trip.pickupPoints.push(pickupPoint) and trip.pickupSuggestions.push(...).
PushSuggestion(t, u) ==
  [t EXCEPT !.pickupPoints =
              Append(@, [source |-> "passenger", status |-> "active", requestedBy |-> u]),
            !.pickupSuggestions =
              Append(@, [passenger |-> u, status |-> "pending"])]

\* trip.save(): the entries the handler pushed are appended to the stored
\* arrays ($push), whatever was written since the read.
PickSave(r) ==
  /\ pickReq[r].pc = "loaded"
  /\ trip' = PushSuggestion(trip, pickReq[r].user)
  /\ pickReq' = [pickReq EXCEPT ![r] = IdlePick]
  /\ UNCHANGED <<now, ticks, users, vehicles, nextVehicle, reqs, race,
                 cancelReq, roleReq, regReq, tripReq, plateReq, decReq, resetReq, actReq, authVars>>

PickupNames == {"", "Puente"}
PickupLats == {0, 91}
PickupLngs == {0, -181}

\* Pickup suggestions of the passengers of one trip, step by step, among
\* their reservation requests.
PickupNext ==
  \/ \E u \in UserIds, seats \in {0, InitCapacity} :
        CreateTrip(u, NoVehicle, DepartureLead, seats)
  \/ \E r \in PickIds, u \in UserIds, name \in PickupNames, lat \in PickupLats,
        lng \in PickupLngs : PickLoad(r, u, name, lat, lng)
  \/ \E r \in PickIds : PickSave(r)
  \/ \E u \in UserIds : ReserveUpdate(1, u, MIN_CAPACITY)
  \/ ReserveDiagnose(1)
  \/ ReserveFinish(1)

PickupSpec == Init /\ [][PickupNext]_vars

\* ------------------------------------------------------- the route table
\* The routes that are declared with requireAuth before their handler.
GuardedRoutes ==
  {"GET /auth/me", "PUT /auth/me", "PUT /auth/role", "POST /auth/logout",
   "GET /users/me", "GET /users/me/driver-readiness", "PUT /users/me",
   "POST /vehicles", "GET /vehicles", "POST /vehicles/validate",
   "PUT /vehicles/:id", "DELETE /vehicles/:id", "PUT /vehicles/:id/activate",
   "GET /vehicles/:id/pickup-points", "POST /vehicles/:id/pickup-points",
   "PUT /vehicles/:id/pickup-points/:pointId",
   "DELETE /vehicles/:id/pickup-points/:pointId",
   "POST /vehicles/:id/request-review",
   "POST /trips", "POST /trips/:id/reservations",
   "POST /trips/:id/pickup-suggestions",
   "PUT /trips/:tripId/reservations/:reservationId/confirm",
   "PUT /trips/:tripId/reservations/:reservationId/reject",
   "PUT /trips/:tripId/reservations/:reservationId/cancel",
   "PUT /trips/:id/cancel", "GET /trips/:id/passengers"}

\* The routes that are declared with their handler alone.
OpenRoutes ==
  {"POST /auth/register", "POST /auth/login", "POST /auth/forgot-password",
   "POST /auth/reset-password", "GET /health",
   "GET /trips", "POST /trips/tariff/suggest",
   "GET /maps/distance", "POST /maps/calculate",
   "GET /maps/transmilenio/routes", "GET /maps/transmilenio/stations",
   "GET /maps/transmilenio/stops", "GET /maps/route-suggest"}

Routes == GuardedRoutes \cup OpenRoutes

\* What a request to a route is answered as far as authentication goes: the
\* 401 of requireAuth, or 200 when its handler runs.
RouteAuthStatus(route, tok, tv, tc) ==
  IF route \in GuardedRoutes THEN requireAuth(tok, tv, tc) ELSE 200

\* ------------------------------------------- trip creation, step by step
\* POST /trips up to its last check: the user and the vehicle are read and
\* the payload is validated (a refused request ends here), ...
TripLoad(u, vid, dep, seats) ==
  /\ tripReq.pc = "idle"
  /\ trip.status = "none"
  /\ tripReq' = IF CreateTripStatus(u, vid, dep, seats) = 201
                THEN [pc |-> "checked", doc |-> NewTrip(u, vid, dep, seats)]
                ELSE tripReq
  /\ UNCHANGED <<now, ticks, users, vehicles, nextVehicle, trip, reqs, race,
                 cancelReq, roleReq, regReq, pickReq, plateReq, decReq, resetReq, actReq, authVars>>

\* ... then Trip.create stores the payload built from what was read.
TripStore ==
  /\ tripReq.pc = "checked"
  /\ trip.status = "none"
  /\ trip' = tripReq.doc
  /\ tripReq' = IdleTripReq
  /\ UNCHANGED <<now, ticks, users, vehicles, nextVehicle, reqs, race,
                 cancelReq, roleReq, regReq, pickReq, plateReq, decReq, resetReq, actReq, authVars>>

\* Trip creation step by step among the owner's vehicle requests.
TripRaceNext ==
  \/ \E d \in VehicleSteps : Tick(d)
  \/ \E u \in UserIds, soat \in SoatInputs :
        CreateVehicle(u, DefaultPlate, InitCapacity, soat, FarFuture)
  \/ \E u \in UserIds, vid \in VehicleIds : DeleteVehicle(u, vid)
  \/ \E u \in UserIds, vid \in {NoVehicle} \cup VehicleIds, dep \in DepartureInputs,
        seats \in {0, MIN_CAPACITY} : TripLoad(u, vid, dep, seats)
  \/ TripStore

TripRaceSpec == Init /\ [][TripRaceNext]_vars

\* ------------------------------------------------ what gets stored
\* User 0 is a driver with vehicle 1, the last user has not registered yet.
StoreInit ==
  /\ now = 0
  /\ ticks = 0
  /\ users = [u \in UserIds |-> IF u = 0 THEN RegisteredDriver
                                ELSE IF u = NumPassengers THEN AbsentUser
                                ELSE Passenger]
  /\ vehicles = [v \in VehicleIds |-> IF v = 1 THEN RegisteredVehicle(0) ELSE AbsentVehicle]
  /\ nextVehicle = 2
  /\ trip = NoTrip
  /\ reqs = [r \in ReqIds |-> IdleReq]
  /\ race = NoRace
  /\ FlightInitial
  /\ AuthInitial

StorePlates ==
  {DefaultPlate, <<" ", "a", "b", "c", "1", "2", "D">>,
   <<"A", "B", "1", "2", "3", "4">>, <<" ">>, <<>>}
StoreCapacities == {0, InitCapacity, DEFAULT_MAX_CAPACITY, DEFAULT_MAX_CAPACITY + 1}

\* The three requests that store a vehicle; the requests behind requireAuth
\* come from registered users.
StoreNext ==
  \/ \E u \in UserIds, role \in {"passenger", "driver"}, plate \in StorePlates,
        cap \in StoreCapacities :
       Register(u, role, plate, cap, FarFuture, FarFuture, "none", "fulfilled")
  \/ \E u \in UserIds, plate \in StorePlates, cap \in StoreCapacities :
       users[u] # AbsentUser /\ CreateVehicle(u, plate, cap, FarFuture, FarFuture)
  \/ \E u \in UserIds, vid \in VehicleIds, plate \in StorePlates \cup {NoPlateField},
        cap \in StoreCapacities \cup {Undefined} :
       users[u] # AbsentUser /\ UpdateVehicle(u, vid, plate, cap, Undefined, NoField)

StoreSpec == StoreInit /\ [][StoreNext]_vars

\* ------------------------------------------------- review requests
\* POST /vehicles/:id/request-review: the status it answers with.
RequestReviewStatus(u, vid) ==
  IF ~Owns(vehicles, u, vid) THEN 404
  ELSE IF DocsExpired(vehicles[vid], now) THEN 400
  ELSE 200

RequestReview(u, vid) ==
  /\ vehicles' = IF RequestReviewStatus(u, vid) = 200
                    /\ vehicles[vid].status # "under_review"
                 THEN [vehicles EXCEPT ![vid].status = "under_review",
                                       ![vid].reviewedAt = NoTime]
                 ELSE vehicles
  /\ UNCHANGED <<now, ticks, users, nextVehicle, trip, reqs, race, flightVars, authVars>>

TeamDecisions == {"verified", "rejected", "needs_update"}

\* Owners ask for reviews and the verification team decides, while documents
\* expire.
ReviewNext ==
  \/ \E d \in VehicleSteps : Tick(d)
  \/ \E u \in UserIds, soat \in SoatInputs :
        CreateVehicle(u, DefaultPlate, InitCapacity, soat, FarFuture)
  \/ \E vid \in VehicleIds, st \in TeamDecisions : ReviewVehicle(vid, st)
  \/ \E u \in UserIds, vid \in VehicleIds : RequestReview(u, vid)

ReviewSpec == Init /\ [][ReviewNext]_vars

\* ------------------------------------------- deleting one of several
\* A driver who has registered every vehicle id, had them verified and
\* activated one of them; each SOAT runs out either soon or far in the future.
GarageDocs == {DepartureLead, FarFuture}

GarageVehicle(soat) ==
  [RegisteredVehicle(0) EXCEPT !.status = "verified", !.soatExpiration = soat]

GarageInit ==
  /\ now = 0
  /\ ticks = 0
  /\ \E a \in VehicleIds :
       users = [u \in UserIds |-> IF u = 0
                                  THEN [RegisteredDriver EXCEPT !.activeVehicle = a]
                                  ELSE Passenger]
  /\ \E docs \in [VehicleIds -> GarageDocs] :
       vehicles = [v \in VehicleIds |-> GarageVehicle(docs[v])]
  /\ nextVehicle = MaxVehicles + 2
  /\ trip = NoTrip
  /\ reqs = [r \in ReqIds |-> IdleReq]
  /\ race = NoRace
  /\ FlightInitial
  /\ AuthInitial

GarageNext ==
  \/ \E d \in VehicleSteps : Tick(d)
  \/ \E u \in UserIds, vid \in VehicleIds : ActivateVehicle(u, vid)
  \/ \E u \in UserIds, vid \in VehicleIds : DeleteVehicle(u, vid)

GarageSpec == GarageInit /\ [][GarageNext]_vars

\* ------------------------- confirm, reject and cancel, step by step
\* Whether PUT .../confirm, .../reject or .../cancel by user u on reservation i
\* gets past its checks on the document t and goes on to modify it.
DecisionProceeds(t, kind, u, i) ==
  /\ t.status # "none"
  /\ i \in DOMAIN t.reservations
  /\ IF kind = "cancel"
     THEN /\ t.driver = u \/ t.reservations[i].passenger = u
          /\ t.reservations[i].status \notin {"cancelled", "rejected"}
     ELSE /\ t.driver = u
          /\ t.reservations[i].status = "pending"

\* The document as the handler leaves it in memory before trip.save().
DecidedDoc(doc, kind, i) ==
  IF kind = "confirm" THEN adjustTripCapacity(Decide(doc, i, "confirmed"))
  ELSE IF kind = "reject" THEN adjustTripCapacity(ReturnSeats(Decide(doc, i, "rejected"), i))
  ELSE adjustTripCapacity(ReturnSeats(Decide(doc, i, "cancelled"), i))

\* trip.save(): the paths whose value the handler changed are written over the
\* stored document: the status and decisionAt of reservation i, and
\* seatsAvailable and status when they differ from the value that was read.
\* The save carries the version it read as a condition (a path below an array
\* index is written); no handler of DecisionSpec changes the version.
SavedDecision(stored, doc, kind, i) ==
  LET new == DecidedDoc(doc, kind, i)
  IN  [stored EXCEPT
         !.reservations[i].status = new.reservations[i].status,
         !.reservations[i].decisionAt = new.reservations[i].decisionAt,
         !.seatsAvailable = IF new.seatsAvailable # doc.seatsAvailable
                            THEN new.seatsAvailable ELSE @,
         !.status = IF new.status # doc.status THEN new.status ELSE @]

\* Trip.findOne and the checks; a refused or idempotent request ends here.
DecisionLoad(r, kind, u, i) ==
  /\ decReq[r].pc = "idle"
  /\ decReq' = IF DecisionProceeds(trip, kind, u, i)
               THEN [decReq EXCEPT ![r] = [pc |-> "loaded", kind |-> kind,
                                           i |-> i, doc |-> trip]]
               ELSE decReq
  /\ UNCHANGED <<now, ticks, users, vehicles, nextVehicle, trip, reqs, race,
                 cancelReq, roleReq, regReq, pickReq, tripReq, plateReq, resetReq, actReq, authVars>>

DecisionSave(r) ==
  /\ decReq[r].pc = "loaded"
  /\ trip' = SavedDecision(trip, decReq[r].doc, decReq[r].kind, decReq[r].i)
  /\ decReq' = [decReq EXCEPT ![r] = IdleDecision]
  /\ UNCHANGED <<now, ticks, users, vehicles, nextVehicle, reqs, race,
                 cancelReq, roleReq, regReq, pickReq, tripReq, plateReq, resetReq, actReq, authVars>>

DecisionKinds == {"confirm", "reject", "cancel"}

\* The driver publishes a trip; reservations and decisions on them interleave.
DecisionNext ==
  \/ \E seats \in {MIN_CAPACITY, InitCapacity} :
       CreateTrip(0, NoVehicle, now + DepartureLead, seats)
  \/ \E r \in ReqIds, u \in UserIds, s \in SeatInputs : ReserveUpdate(r, u, s)
  \/ \E r \in ReqIds : ReserveDiagnose(r)
  \/ \E r \in ReqIds : ReserveFinish(r)
  \/ \E r \in DecIds, kind \in DecisionKinds, u \in UserIds, i \in ReservationIds :
       DecisionLoad(r, kind, u, i)
  \/ \E r \in DecIds : DecisionSave(r)

DecisionSpec == Init /\ [][DecisionNext]_vars

\* ------------------------------------------- activation, step by step
\* PUT /vehicles/:id/activate finds the vehicle and checks it (a refused
\* request ends here), ...
ActivateLoad(u, vid) ==
  /\ actReq.pc = "idle"
  /\ actReq' = IF ActivateStatus(u, vid) = 200
               THEN [pc |-> "found", user |-> u, vehicle |-> vid]
               ELSE actReq
  /\ UNCHANGED <<now, ticks, users, vehicles, nextVehicle, trip, reqs, race,
                 cancelReq, roleReq, regReq, pickReq, tripReq, plateReq, decReq, resetReq, authVars>>

\* ... then reads the user, sets activeVehicle to the vehicle it found, adds
\* the driver role and saves.
ActivateSave ==
  /\ actReq.pc = "found"
  /\ users' = [users EXCEPT ![actReq.user].activeVehicle = actReq.vehicle,
                            ![actReq.user].roles = @ \cup {"driver"}]
  /\ actReq' = IdleActivate
  /\ UNCHANGED <<now, ticks, vehicles, nextVehicle, trip, reqs, race,
                 cancelReq, roleReq, regReq, pickReq, tripReq, plateReq, decReq, resetReq, authVars>>

\* Activations step by step among the other vehicle and role requests.
ActivateRaceNext ==
  \/ \E u \in UserIds, soat \in SoatInputs :
       CreateVehicle(u, DefaultPlate, InitCapacity, soat, FarFuture)
  \/ \E vid \in VehicleIds, st \in ReviewOutcomes : ReviewVehicle(vid, st)
  \/ \E u \in UserIds, vid \in VehicleIds : ActivateLoad(u, vid)
  \/ ActivateSave
  \/ \E u \in UserIds, vid \in VehicleIds : DeleteVehicle(u, vid)
  \/ \E u \in UserIds, role \in RoleInputs : SwitchRole(u, role)

ActivateRaceSpec == Init /\ [][ActivateRaceNext]_vars

\* ------------------------------------------------------- vehicle meta
\* computeDocumentStatus(expirationDate, now): the status it reports.
computeDocumentStatus(expirationDate, t) ==
  IF expirationDate = NoTime THEN "missing"
  ELSE IF expirationDate - t < 0 THEN "expired"
  ELSE IF ((expirationDate - t) + MsPerDay - 1) \div MsPerDay <= ExpiringDays THEN "expiring"
  ELSE "valid"

\* decorateVehicle: documentsOk, meta.canRequestReview and meta.canActivate.
documentsOk(v, t) ==
  /\ computeDocumentStatus(v.soatExpiration, t) = "valid"
  /\ computeDocumentStatus(v.licenseExpiration, t) = "valid"

canRequestReview(v, t) ==
  documentsOk(v, t) /\ v.status \in {"pending", "needs_update", "rejected"}

canActivate(v, t) == v.status = "verified" /\ documentsOk(v, t)

\* ================================================================ claims
TripExists == trip.status # "none"

\* C1 (as stated): whenever the trip exists, seatsAvailable equals seatsTotal
\* minus the seats of its pending and confirmed reservations.
C1_SeatConservation ==
  TripExists => trip.seatsAvailable = trip.seatsTotal - SeatsHeld(trip.reservations)

\* C1 (amended): while the trip is scheduled or full, seatsAvailable equals
\* seatsTotal minus the seats of its pending and confirmed reservations; a
\* cancelled trip has seatsAvailable = 0 and holds no pending or confirmed
\* reservation.
C1_SeatConservationUntilCancelled ==
  /\ trip.status \in {"scheduled", "full"}
       => trip.seatsAvailable = trip.seatsTotal - SeatsHeld(trip.reservations)
  /\ trip.status = "cancelled"
       => trip.seatsAvailable = 0 /\ SeatsHeld(trip.reservations) = 0

\* A live trip that holds a confirmed reservation next to a rejected and a
\* cancelled one: seats were taken and given back.
C1_Witness ==
  /\ trip.status \in {"scheduled", "full"}
  /\ \E i, j \in DOMAIN trip.reservations :
       /\ trip.reservations[i].status \in {"rejected", "cancelled"}
       /\ trip.reservations[j].status = "confirmed"

\* C2: in a race of N distinct passengers asking s seats each for a trip with
\* K seats available, every refused request is answered INSUFFICIENT_SEATS,
\* seats are never oversold, and once all are answered exactly floor(K/s) of
\* them were created (all N of them when N < floor(K/s)).
C2_NoOversell ==
  /\ \A r \in ReqIds : reqs[r].pc = "failed" => Answer(r) = "INSUFFICIENT_SEATS"
  /\ trip.seatsAvailable = race.k - race.s * RaceCreated
  /\ trip.seatsAvailable >= 0
  /\ RaceOver => RaceCreated = Min(race.n, race.k \div race.s)

\* The race is over with more requests than the seats allowed: some were
\* created, some refused.
C2_Witness ==
  /\ RaceOver
  /\ RaceCreated >= 1
  /\ RaceCreated < race.n
  /\ RaceCreated = race.k \div race.s

C4_DuplicateReported ==
  \A r \in ReqIds :
    ( /\ reqs[r].pc = "failed"
      /\ ActiveOf(trip, reqs[r].user) # {}
      /\ trip.status \in {"scheduled", "full"}
      /\ trip.seatsAvailable >= reqs[r].seats )
    => Answer(r) = "DUPLICATE_RESERVATION"

\* C5: when no request is in flight, status = full exactly when
\* seatsAvailable = 0 and the status is neither cancelled nor completed.
C5_StatusBijection ==
  (Quiet /\ TripExists) =>
     ( trip.status = "full"
         <=> (trip.seatsAvailable = 0 /\ trip.status \notin {"cancelled", "completed"}) )

\* A trip that was full and is scheduled again after a seat came back.
C5_Witness ==
  /\ Quiet
  /\ trip.status = "scheduled"
  /\ trip.seatsAvailable > 0
  /\ \E i \in DOMAIN trip.reservations : trip.reservations[i].status = "rejected"
  /\ \E i \in DOMAIN trip.reservations : trip.reservations[i].status = "confirmed"

FiveCauses ==
  {"TRIP_NOT_FOUND", "OWN_TRIP", "TRIP_NOT_AVAILABLE", "INSUFFICIENT_SEATS",
   "DUPLICATE_RESERVATION"}

\* C6: every request whose conditional update was not applied is answered
\* with one of the five causes.
C6_FailureIsOneOfFive ==
  \A r \in ReqIds : reqs[r].pc = "failed" => Answer(r) \in FiveCauses

WellFormed(pw) == Len(pw) >= MinResetPasswordLen

\* C7: a reset token is redeemable exactly once.  While it is unredeemed and
\* its expiry is not in the past, a reset-password with it and a well-formed
\* password answers 200; once redeemed, every reset-password with it answers
\* 400 (token invalid or expired, for every request that passes the input
\* validation); a token whose expiry is in the past is always refused the same
\* way; and a reset-password step replaces the owner's password when it
\* answers 200 and leaves every password unchanged when it answers 400.
C7_RedeemableOnce ==
  /\ [](\A i \in DOMAIN resets, pw \in PasswordInputs :
         LET tk == resets[i].token IN
         /\ (tk \notin redeemed /\ resets[i].expiresAt >= now /\ WellFormed(pw))
              => ResetStatus(tk, pw) = 200
         /\ (tk \in redeemed \/ resets[i].expiresAt < now)
              => /\ ResetStatus(tk, pw) = 400
                 /\ WellFormed(pw) => ResetAnswer(tk, pw) = "TOKEN_INVALID_OR_EXPIRED")
  /\ [][\A tk \in ResetTokenInputs, pw \in PasswordInputs :
          ResetPassword(tk, pw) =>
            IF ResetStatus(tk, pw) = 200
            THEN /\ users'[resets[FindReset(tk)].userId].passwordHash = bcryptHash(pw)
                 /\ tk \notin redeemed
            ELSE users' = users]_vars

\* One token was redeemed and replaced its owner's password; another one
\* expired without being redeemed.
C7_Witness ==
  \E i, j \in DOMAIN resets :
    /\ resets[i].token \in redeemed
    /\ users[resets[i].userId].passwordHash # bcryptHash(InitialPassword)
    /\ resets[j].token \notin redeemed
    /\ resets[j].expiresAt < now

\* C8: once a logout with token T answered 200, every request that presents T
\* to an authenticated endpoint is answered 401, whatever the time.
C8_RevokedAlwaysRejected ==
  \A tok \in loggedOut, d \in Elapsed :
    now + d <= Horizon => requireAuth(tok, now, now + d) = 401

\* C9: after a logout, the token of the latest login is accepted by
\* authenticated endpoints for as long as it has not expired and no logout
\* was made with it since that login.
C9_FreshLoginAccepted ==
  (loggedOut # {} /\ fresh # NoToken /\ jwtVerify(fresh, now))
    => requireAuth(fresh, now, now) = 200

\* C10: a delete of a vehicle is answered 400 while its owner has a scheduled
\* or full trip on it that has not departed; it is answered 200 once that
\* trip is cancelled; a refused delete changes no vehicle and no user; and a
\* delete that leaves the owner without vehicles leaves the owner without the
\* driver role, with activeRole passenger and without an active vehicle.
C10_DeleteSafety ==
  /\ [](\A u \in UserIds, vid \in VehicleIds :
         Owns(vehicles, u, vid) /\ trip.vehicle = vid /\ trip.driver = u =>
           /\ (trip.status \in {"scheduled", "full"} /\ trip.departureAt >= now)
                => DeleteStatus(u, vid) = 400
           /\ trip.status = "cancelled" => DeleteStatus(u, vid) = 200)
  /\ [][\A u \in UserIds, vid \in VehicleIds :
          DeleteVehicle(u, vid) =>
            /\ DeleteStatus(u, vid) # 200 => vehicles' = vehicles /\ users' = users
            /\ DeleteStatus(u, vid) = 200 =>
                 /\ vehicles'[vid] = AbsentVehicle
                 /\ (\A v \in VehicleIds : ~Owns(vehicles', u, v)) =>
                      /\ "driver" \notin users'[u].roles
                      /\ users'[u].activeRole = "passenger"
                      /\ users'[u].activeVehicle = NoVehicle]_vars

\* The driver's last vehicle was deleted after the trip on it was cancelled.
C10_Witness ==
  /\ trip.status = "cancelled"
  /\ trip.vehicle # NoVehicle
  /\ vehicles[trip.vehicle] = AbsentVehicle
  /\ \A v \in VehicleIds : ~Owns(vehicles, trip.driver, v)
  /\ "driver" \notin users[trip.driver].roles

\* The vehicle a request selects: the one it names, else the active vehicle.
SelectedVehicle(u, vid) == IF vid # NoVehicle THEN vid ELSE users[u].activeVehicle

\* C11: whenever the vehicle a request selects has a SOAT or license
\* expiration in the past, creating a trip with it, activating it and
\* switching the active role to driver are all refused.
C11_DocumentGate ==
  \A u \in UserIds, vid \in {NoVehicle} \cup VehicleIds :
    LET sel == SelectedVehicle(u, vid) IN
    (sel # NoVehicle /\ Owns(vehicles, u, sel) /\ DocsExpired(vehicles[sel], now)) =>
      /\ \A dep \in DepartureInputs, seats \in 0..InitCapacity :
           CreateTripStatus(u, vid, dep, seats) # 201
      /\ vid # NoVehicle => ActivateStatus(u, vid) # 200
      /\ vid = NoVehicle => RoleStatus(u, "driver") # 200

\* A material field of the vehicle gets a new value (capacity and SOAT
\* expiration stand for plate, brand, model, license and document photos).
MaterialChange(v, cap, soat) ==
  \/ cap # Undefined /\ v.capacity # cap
  \/ soat # Undefined /\ v.soatExpiration # soat

\* C12: a successful vehicle update sets status pending and clears the review
\* metadata exactly when it changes a material field; an update that changes
\* none (only the color, or identical values) leaves both as they were.
C12_VerificationReset ==
  [][\A u \in UserIds, vid \in VehicleIds, cap \in UpdateCapacityInputs,
        soat \in UpdateSoatInputs, color \in ColorInputs :
       (UpdateVehicle(u, vid, NoPlateField, cap, soat, color)
          /\ UpdateVehicleStatus(u, vid, NoPlateField, cap, soat, color) = 200) =>
         IF MaterialChange(vehicles[vid], cap, soat)
         THEN /\ vehicles'[vid].status = "pending"
              /\ vehicles'[vid].reviewedAt = NoTime
         ELSE /\ vehicles'[vid].status = vehicles[vid].status
              /\ vehicles'[vid].reviewedAt = vehicles[vid].reviewedAt]_vars

AllCancelled(t) ==
  \A i \in DOMAIN t.reservations : t.reservations[i].status = "cancelled"

\* C13: the save of a trip cancellation leaves the trip cancelled with
\* seatsAvailable = 0 and every reservation cancelled, and in every reachable
\* state, whatever reservation requests ran in between, a cancelled trip
\* holds no pending or confirmed reservation.
C13_CancelledTripHoldsNothing ==
  /\ [](trip.status = "cancelled" => AllCancelled(trip))
  /\ [][CancelSave => /\ trip'.status = "cancelled"
                      /\ trip'.seatsAvailable = 0
                      /\ AllCancelled(trip')]_vars

\* C14: the cancellation answers 200 whatever the outcomes of the sends, it
\* answers only once every send has settled, and neither the settling of a
\* send (fulfilled or rejected) nor the response changes the stored trip.
C14_EmailFailuresNotFatal ==
  [][/\ CancelRespond =>
          /\ \A i \in DOMAIN cancelReq.mails : cancelReq.mails[i] \in MailOutcomes
          /\ CancelTripStatus(cancelReq.mails) = 200
          /\ trip' = trip
     /\ \A i \in ReservationIds, outcome \in MailOutcomes :
          EmailSettles(i, outcome) => trip' = trip /\ cancelReq'.pc = "notifying"]_vars

\* Every send has settled, one of them rejected, and the stored trip is
\* cancelled: the response is about to be sent.
C14_Witness ==
  /\ cancelReq.pc = "notifying"
  /\ AllSettled(cancelReq.mails)
  /\ \E i \in DOMAIN cancelReq.mails : cancelReq.mails[i] = "rejected"
  /\ \E i \in DOMAIN cancelReq.mails : cancelReq.mails[i] = "fulfilled"
  /\ trip.status = "cancelled"

\* C15: of the reset tokens issued to one user only the newest can be unused:
\* every token issued before another one of the same user is marked used (so
\* that, right after a forgot-password, exactly the new token is unused).
C15_OnlyNewestUnused ==
  \A i, j \in DOMAIN resets :
    (i < j /\ resets[i].userId = resets[j].userId) => resets[i].used

\* The user owns a verified vehicle whose SOAT and license have not expired.
HasVerifiedVehicle(u) ==
  \E v \in VehicleIds :
    /\ vehicles[v].owner = u
    /\ vehicles[v].status = "verified"
    /\ vehicles[v].soatExpiration >= now
    /\ vehicles[v].licenseExpiration >= now

\* C16: PUT /auth/role to passenger or driver answers 403 when the role is not
\* among the user's roles, else 400 when the role is driver and the user owns
\* no verified vehicle with unexpired documents, else 200; a refused switch
\* changes no user; a successful one sets activeRole to the role, keeps a
\* non-null activeVehicle, and a switch to driver with a null activeVehicle
\* makes a verified vehicle with unexpired documents the active one.
C16_RoleSwitch ==
  /\ [](\A u \in UserIds, r \in {"passenger", "driver"} :
          RoleStatus(u, r) =
            IF r \notin users[u].roles THEN 403
            ELSE IF r = "driver" /\ ~HasVerifiedVehicle(u) THEN 400
            ELSE 200)
  /\ [][\A u \in UserIds, r \in {"passenger", "driver"} :
          SwitchRole(u, r) =>
            IF RoleStatus(u, r) = 200
            THEN /\ users'[u].activeRole = r
                 /\ users'[u].roles = users[u].roles
                 /\ users[u].activeVehicle # NoVehicle
                      => users'[u].activeVehicle = users[u].activeVehicle
                 /\ (users[u].activeVehicle = NoVehicle /\ r = "driver")
                      => /\ users'[u].activeVehicle \in VehicleIds
                         /\ vehicles[users'[u].activeVehicle].owner = u
                         /\ vehicles[users'[u].activeVehicle].status = "verified"
                         /\ ~DocsExpired(vehicles[users'[u].activeVehicle], now)
            ELSE users' = users]_vars

\* A user who registered as a passenger is an active driver with a verified
\* vehicle: a switch to driver succeeded.
C16_Witness ==
  \E u \in UserIds \ {0} :
    /\ users[u].activeRole = "driver"
    /\ HasVerifiedVehicle(u)

\* C17: in every reachable state, whatever the interleaving of role switch,
\* vehicle create, activate and delete requests, every user's activeRole is
\* one of the user's roles.
C17_ActiveRoleInRoles ==
  \A u \in UserIds : users[u].activeRole \in users[u].roles

\* C18: when a driver registration returns 201 the user and the vehicle are
\* both stored, the user's activeVehicle is that vehicle and roles hold
\* passenger and driver; when it returns anything else the request has left
\* the users and the vehicles as they were.
C18_DriverRegistrationAtomic ==
  [][\A u \in UserIds, cap \in RegCapacityInputs, soat \in RegDateInputs,
        lic \in RegDateInputs, fault \in RegisterFaults, mail \in MailOutcomes :
       Register(u, "driver", DefaultPlate, cap, soat, lic, fault, mail) =>
         IF regReq'.status = 201
         THEN /\ regReq'.vehicle \in VehicleIds
              /\ vehicles'[regReq'.vehicle] # AbsentVehicle
              /\ vehicles'[regReq'.vehicle].owner = u
              /\ users'[u].activeVehicle = regReq'.vehicle
              /\ {"passenger", "driver"} \subseteq users'[u].roles
         ELSE users' = users /\ vehicles' = vehicles]_vars

Terminal(i) ==
  /\ i \in DOMAIN trip.reservations
  /\ trip.reservations[i].status \in {"rejected", "cancelled"}

AlreadyConfirmed(i) ==
  /\ i \in DOMAIN trip.reservations
  /\ trip.reservations[i].status = "confirmed"

\* C20: the driver's confirm and reject and the driver's or the passenger's
\* cancel of a rejected or cancelled reservation answer 200, and so does the
\* driver's confirm of a confirmed reservation; none of these requests
\* changes the trip or its reservations.
C20_TerminalIdempotent ==
  /\ [](\A u \in UserIds, i \in ReservationIds :
          /\ (Terminal(i) /\ trip.driver = u) =>
               ConfirmStatus(u, i) = 200 /\ RejectStatus(u, i) = 200
          /\ (Terminal(i) /\ u \in {trip.driver, trip.reservations[i].passenger}) =>
               CancelReservationStatus(u, i) = 200
          /\ (AlreadyConfirmed(i) /\ trip.driver = u) => ConfirmStatus(u, i) = 200)
  /\ [][\A u \in UserIds, i \in ReservationIds :
          (\/ Terminal(i) /\ (Confirm(u, i) \/ Reject(u, i) \/ CancelReservation(u, i))
           \/ AlreadyConfirmed(i) /\ Confirm(u, i))
            => trip' = trip]_vars

\* The status changes a reservation may go through.
AllowedMoves ==
  {<<"pending", "confirmed">>, <<"pending", "rejected">>,
   <<"pending", "cancelled">>, <<"confirmed", "cancelled">>}

\* C21: every step that changes the status of a reservation takes it from
\* pending to confirmed, from pending to rejected, or from pending or
\* confirmed to cancelled; a rejected or cancelled reservation keeps its
\* status through every operation, the cancellation of the trip included.
C21_ReservationMoves ==
  [][\A i \in DOMAIN trip.reservations :
       (i \in DOMAIN trip'.reservations
          /\ trip'.reservations[i].status # trip.reservations[i].status)
         => <<trip.reservations[i].status, trip'.reservations[i].status>>
              \in AllowedMoves]_vars

\* C22: in every reachable state each passenger has at most 3 pending pickup
\* suggestions on the trip, and a well-formed request of a passenger who has
\* 3 pending ones is answered 429.
C22_PendingSuggestionLimit ==
  \A u \in UserIds :
    /\ Cardinality(pendingForPassenger(trip, u)) <= 3
    /\ (TripExists /\ trip.driver # u
          /\ Cardinality(pendingForPassenger(trip, u)) = 3)
         => PickupStatus(u, "Puente", 0, 0) = 429

\* The endpoints that are meant to be open to everyone.
PublicRoutes ==
  {"POST /auth/register", "POST /auth/login", "POST /auth/forgot-password",
   "POST /auth/reset-password", "GET /health", "GET /maps/route-suggest",
   "GET /maps/transmilenio/stops"}

\* A bearer token that is valid and unrevoked at the current time.
GoodToken(tok) == jwtVerify(tok, now) /\ ~isTokenRevoked(revokedTokens, tok, now)

\* C23: every route other than registration, login, forgot-password,
\* reset-password, health, GET route-suggest and the stops lookup answers 401
\* to a request that carries no token, an expired token or a revoked token.
C23_BearerAuthEverywhere ==
  \A route \in Routes \ PublicRoutes, tok \in issued \cup {NoToken} :
    ~GoodToken(tok) => RouteAuthStatus(route, tok, now, now) = 401

\* A reservation that holds seats of the trip.
HoldsSeats(i) ==
  /\ i \in DOMAIN trip.reservations
  /\ trip.reservations[i].status \in {"pending", "confirmed"}

C25_LiveTripHasVehicle ==
  (trip.status \in {"scheduled", "full"} /\ trip.departureAt >= now)
    => Owns(vehicles, trip.driver, trip.vehicle)

\* The input is some whitespace, six characters and some whitespace, and the
\* six characters, upper-cased, are three letters and three digits or three
\* letters, two digits and a letter.
PlateShaped(raw) ==
  \E a \in 0..Len(raw) :
    /\ a + 6 <= Len(raw)
    /\ \A k \in 1..a : raw[k] = " "
    /\ \A k \in (a + 7)..Len(raw) : raw[k] = " "
    /\ \A k \in 1..3 : toUpperCase(raw[a + k]) \in UpperLetters
    /\ \A k \in 4..5 : toUpperCase(raw[a + k]) \in Digits
    /\ toUpperCase(raw[a + 6]) \in Digits \cup UpperLetters

\* C26: validatePlate answers ok exactly for the inputs that, trimmed and
\* upper-cased, match one of the two plate patterns, and its value is then
\* that normalized form; ABC123, ABC12D and abc123 are accepted, and AB1234,
\* A1C123, 12A345 and "abc 123" are rejected.
C26_ValidatePlate ==
  plateReq.pc = "returned" =>
    /\ plateReq.ok <=> PlateShaped(plateReq.raw)
    /\ plateReq.ok =>
         /\ Len(plateReq.value) = 6
         /\ \E a \in 0..Len(plateReq.raw) :
              /\ a + 6 <= Len(plateReq.raw)
              /\ \A k \in 1..6 : plateReq.value[k] = toUpperCase(plateReq.raw[a + k])
         /\ \A k \in 1..6 : plateReq.value[k] \in UpperLetters \cup Digits
    /\ plateReq.raw \in {<<"A", "B", "C", "1", "2", "3">>,
                         <<"A", "B", "C", "1", "2", "D">>,
                         <<"a", "b", "c", "1", "2", "3">>} => plateReq.ok
    /\ plateReq.raw \in {<<"A", "B", "1", "2", "3", "4">>,
                         <<"A", "1", "C", "1", "2", "3">>,
                         <<"1", "2", "A", "3", "4", "5">>,
                         <<"a", "b", "c", " ", "1", "2", "3">>} => ~plateReq.ok

\* A padded lower-case plate was accepted and returned in its normalized form.
C26_Witness ==
  /\ plateReq.pc = "returned"
  /\ plateReq.ok
  /\ Len(plateReq.raw) > 6
  /\ plateReq.value # plateReq.raw
  /\ \E k \in DOMAIN plateReq.raw : plateReq.raw[k] = "a"

\* C27: every stored vehicle has a plate that matches one of the two plate
\* patterns and a capacity between 1 and 8.
C27_StoredVehiclesValid ==
  \A vid \in VehicleIds :
    vehicles[vid].status # "none" =>
      /\ CAR_PLATE_REGEX(vehicles[vid].plate) \/ MOTORCYCLE_PLATE_REGEX(vehicles[vid].plate)
      /\ vehicles[vid].capacity \in 1..8

\* C28: a login that is refused for an existing account is answered exactly
\* as the same request for an e-mail address that no account has: status 401
\* and the same error body.
C28_LoginDoesNotRevealAccounts ==
  \A u \in UserIds, pw \in LoginPasswords :
    LoginAnswer(u, pw).status # 200 =>
      /\ LoginAnswer(u, pw) = LoginAnswer(NoUser, pw)
      /\ LoginAnswer(u, pw).status = 401

\* C29: a request-review changes the status of a vehicle only from pending,
\* rejected or needs_update, only to under_review and only while both
\* documents are unexpired; it leaves the status of a vehicle that is
\* under_review or verified as it is.
C29_RequestReviewMoves ==
  [][\A u \in UserIds, vid \in VehicleIds :
       (RequestReview(u, vid) /\ vehicles'[vid].status # vehicles[vid].status) =>
         /\ vehicles[vid].status \in {"pending", "rejected", "needs_update"}
         /\ vehicles'[vid].status = "under_review"
         /\ ~DocsExpired(vehicles[vid], now)]_vars

\* C30 (as stated): a delete that leaves the owner with vehicles makes the
\* oldest remaining vehicle with unexpired SOAT and license the owner's
\* activeVehicle (the oldest remaining vehicle when none has), and keeps the
\* driver role.
OldestEligible(vs, u, t) ==
  LET remaining == {w \in VehicleIds : Owns(vs, u, w)}
      valid == {w \in remaining : ~DocsExpired(vs[w], t)}
      pool == IF valid # {} THEN valid ELSE remaining
  IN  {a \in pool : \A w \in pool : a <= w}

DeletedLeavingSome(u, vid) ==
  /\ DeleteVehicle(u, vid)
  /\ Owns(vehicles, u, vid)
  /\ ~Owns(vehicles', u, vid)
  /\ \E w \in VehicleIds : Owns(vehicles', u, w)

C30_DeleteReassignsActive ==
  [][\A u \in UserIds, vid \in VehicleIds :
       DeletedLeavingSome(u, vid)
         => /\ "driver" \in users'[u].roles
            /\ users'[u].activeVehicle \in OldestEligible(vehicles', u, now)]_vars

\* C30 (amended): the driver role is kept; activeVehicle is reassigned in that
\* way only when the deleted vehicle was the active one or none was active,
\* and is left as it was when another vehicle was deleted.
C30_DeleteReassignsActiveIfDeleted ==
  [][\A u \in UserIds, vid \in VehicleIds :
       DeletedLeavingSome(u, vid)
         => /\ "driver" \in users'[u].roles
            /\ IF users[u].activeVehicle \in {NoVehicle, vid}
               THEN users'[u].activeVehicle \in OldestEligible(vehicles', u, now)
               ELSE users'[u].activeVehicle = users[u].activeVehicle]_vars

\* The active vehicle was deleted, the oldest remaining vehicle has an expired
\* SOAT and a younger one has not: the younger one is active now.
C30_Witness ==
  \E v, w \in VehicleIds :
    /\ vehicles[1].status = "none"
    /\ v < w
    /\ Owns(vehicles, 0, v) /\ DocsExpired(vehicles[v], now)
    /\ Owns(vehicles, 0, w) /\ ~DocsExpired(vehicles[w], now)
    /\ users[0].activeVehicle = w

\* C31: a reset token issued at time t expires at t + 15 minutes: the record
\* forgot-password stores carries that expiry, and reset-password refuses an
\* unredeemed token once the clock is past it.
C31_ResetTokenLastsFifteenMinutes ==
  [][\A u \in UserIds :
       ForgotPassword(u)
         => LET pr == resets'[Len(resets')]
            IN  /\ pr.expiresAt = now + DocumentedResetTtlMs
                /\ \A pw \in PasswordInputs :
                     WellFormed(pw)
                       => /\ ResetAnswer_At(pr, now + DocumentedResetTtlMs, pw) = "OK"
                          /\ ResetAnswer_At(pr, now + DocumentedResetTtlMs + 1, pw)
                               = "TOKEN_INVALID_OR_EXPIRED"]_vars

\* C32: the store never holds a value that works as a token: a reset-password
\* that presents the stored token field of any record is refused.
C32_StoredValueNeverRedeems ==
  \A i \in DOMAIN resets, pw \in PasswordInputs :
    ResetStatus(resets[i].token, pw) # 200

\* C33: a trip whose status is cancelled or completed keeps that status in
\* every step of every handler, however the handlers interleave.
C33_TerminalTripStatusIsFinal ==
  [][trip.status \in {"cancelled", "completed"} => trip'.status = trip.status]_vars

\* No reservation, confirm, reject or cancel request is between two steps.
NoneInFlight ==
  /\ \A r \in ReqIds : reqs[r].pc = "idle"
  /\ \A r \in DecIds : decReq[r].pc = "idle"

\* C34: interleaved reserve, confirm, reject and cancel-reservation requests
\* leave the trip as some order of the same requests run one after another
\* would: seatsAvailable stays within [0, seatsTotal], the seats of the
\* pending and confirmed reservations never exceed seatsTotal, and once the
\* requests are over seatsAvailable = seatsTotal minus those seats, with the
\* status full exactly when no seat is left.
C34_SeatChangesSerialized ==
  trip.status \in {"scheduled", "full"} =>
    /\ trip.seatsAvailable >= 0
    /\ trip.seatsAvailable <= trip.seatsTotal
    /\ SeatsHeld(trip.reservations) <= trip.seatsTotal
    /\ NoneInFlight =>
         /\ trip.seatsAvailable = trip.seatsTotal - SeatsHeld(trip.reservations)
         /\ trip.status = "full" <=> trip.seatsAvailable = 0

\* Reservation i of the stored trip has been answered 201: no reservation
\* request of its passenger is still between its update and its response,
\* unless that request wrote a later reservation.
Acknowledged(i) ==
  \A r \in ReqIds :
    (reqs[r].pc = "updated" /\ reqs[r].user = trip.reservations[i].passenger)
      => \E j \in DOMAIN trip.reservations :
           j > i /\ trip.reservations[j].passenger = reqs[r].user

\* C35: a reservation that was answered 201 stays in the trip's reservations
\* (with some status) in every step of every handler.
C35_AcknowledgedReservationKept ==
  [][\A i \in DOMAIN trip.reservations :
       Acknowledged(i)
         => /\ i \in DOMAIN trip'.reservations
            /\ trip'.reservations[i].passenger = trip.reservations[i].passenger
            /\ trip'.reservations[i].seats = trip.reservations[i].seats]_vars

\* C36: of the reset-password requests that carry one token at most one is
\* answered 200, and when one request has been answered 200 and no other is
\* past its checks, the stored password of the token's owner is the one that
\* request supplied.
C36_OneResetPerToken ==
  /\ \A r1, r2 \in ResetIds :
       (r1 # r2 /\ resetReq[r1].pc = "answered 200" /\ resetReq[r2].pc = "answered 200")
         => resetReq[r1].token # resetReq[r2].token
  /\ \A r \in ResetIds :
       (/\ resetReq[r].pc = "answered 200"
        /\ \A q \in ResetIds \ {r} : resetReq[q].pc = "idle")
         => users[resets[FindReset(resetReq[r].token)].userId].passwordHash
              = bcryptHash(resetReq[r].password)

\* C37: a user's activeVehicle is null or the id of an existing vehicle that
\* the user owns, whatever vehicle and role requests ran and however they
\* interleaved.
C37_ActiveVehicleIsOwned ==
  \A u \in UserIds :
    users[u].activeVehicle # NoVehicle => Owns(vehicles, u, users[u].activeVehicle)

\* The trip without its two pickup arrays.
WithoutPickups(t) == [t EXCEPT !.pickupPoints = <<>>, !.pickupSuggestions = <<>>]

\* C38: the save of a successful pickup-suggestion request appends exactly one
\* entry to pickupPoints (source passenger, status active) and exactly one
\* mirror entry to pickupSuggestions (status pending, the caller as passenger)
\* and leaves the rest of the trip as stored; the part of the handler that can
\* refuse (driver, invalid point, limit reached, unknown trip) writes nothing.
C38_SuggestionAppendsOnePair ==
  [][/\ \A r \in PickIds :
          PickSave(r)
            => /\ Len(trip'.pickupPoints) = Len(trip.pickupPoints) + 1
               /\ SubSeq(trip'.pickupPoints, 1, Len(trip.pickupPoints)) = trip.pickupPoints
               /\ trip'.pickupPoints[Len(trip'.pickupPoints)].source = "passenger"
               /\ trip'.pickupPoints[Len(trip'.pickupPoints)].status = "active"
               /\ Len(trip'.pickupSuggestions) = Len(trip.pickupSuggestions) + 1
               /\ SubSeq(trip'.pickupSuggestions, 1, Len(trip.pickupSuggestions))
                    = trip.pickupSuggestions
               /\ trip'.pickupSuggestions[Len(trip'.pickupSuggestions)]
                    = [passenger |-> pickReq[r].user, status |-> "pending"]
               /\ WithoutPickups(trip') = WithoutPickups(trip)
     /\ \A r \in PickIds, u \in UserIds, name \in PickupNames, lat \in PickupLats,
           lng \in PickupLngs :
          PickLoad(r, u, name, lat, lng)
            => /\ trip' = trip
               /\ pickReq'[r].pc = "loaded" <=> PickupStatus(u, name, lat, lng) = 201]_vars

\* A passenger's suggestion was stored on a trip that holds a reservation, and
\* the passenger has reached the limit: the next request is refused.
C38_Witness ==
  /\ Len(trip.pickupPoints) = MaxPendingSuggestions
  /\ Len(trip.pickupSuggestions) = MaxPendingSuggestions
  /\ \E u \in UserIds : OverLimit(trip, u) /\ PickupStatus(u, "Puente", 0, 0) = 429
  /\ trip.reservations # <<>>

\* C39: for every stored vehicle and every time, meta.canActivate is true
\* exactly when the owner's PUT /vehicles/:id/activate would answer 200, and
\* meta.canRequestReview is true exactly when the owner's POST
\* /vehicles/:id/request-review would move the vehicle to under_review.
C39_MetaAgreesWithEndpoints ==
  \A vid \in VehicleIds :
    vehicles[vid].status # "none" =>
      LET v == vehicles[vid]
      IN  /\ canActivate(v, now) <=> ActivateStatus(v.owner, vid) = 200
          /\ canRequestReview(v, now)
               <=> (RequestReviewStatus(v.owner, vid) = 200 /\ v.status # "under_review")

\* C40: a confirm or reject sent by anyone but the trip's driver, and a cancel
\* sent by someone who is neither the driver nor the reservation's passenger,
\* changes nothing; and whenever the status of a stored reservation changes,
\* the step is a confirm, reject, cancel or trip cancel by the driver or a
\* cancel by the reservation's passenger.
C40_OnlyDriverOrOwnerMoves ==
  [][/\ \A u \in UserIds, i \in ReservationIds :
          /\ (u # trip.driver /\ (Confirm(u, i) \/ Reject(u, i))) => trip' = trip
          /\ (/\ u # trip.driver
              /\ i \in DOMAIN trip.reservations => trip.reservations[i].passenger # u
              /\ CancelReservation(u, i)) => trip' = trip
     /\ \A i \in DOMAIN trip.reservations :
          (i \in DOMAIN trip'.reservations
             /\ trip'.reservations[i].status # trip.reservations[i].status)
            => \/ Confirm(trip.driver, i) \/ Reject(trip.driver, i)
               \/ CancelReservation(trip.driver, i) \/ CancelTrip(trip.driver)
               \/ CancelReservation(trip.reservations[i].passenger, i)]_vars

\* The driver confirmed one reservation and the other one was cancelled while
\* the trip stayed open.
C40_Witness ==
  /\ trip.status \in {"scheduled", "full"}
  /\ \E i, j \in DOMAIN trip.reservations :
       /\ trip.reservations[i].status = "confirmed"
       /\ trip.reservations[j].status = "cancelled"

====
